---- MODULE Spec2Model ----
(***************************************************************************)
(* State-machine model of the assets service: secrets, buckets, assets,    *)
(* the files under the storage root, and the two credential protocols      *)
(* (read tokens, signed URLs) built on the deterministic cipher.           *)
(*                                                                         *)
(* Conventions                                                             *)
(*   - a nullable column or field is a set with at most one element:       *)
(*     {} is null, {x} is the value x;                                     *)
(*   - time is in milliseconds, as Date.now() gives it;                    *)
(*   - a text is a record: [raw |-> s] a plain string, [json |-> d] the    *)
(*     JSON text of the document d, [garbage |-> TRUE] bytes that are      *)
(*     neither; tag keys are sequences of characters so that "~" joining   *)
(*     and splitting are computed;                                         *)
(*   - every handler is one action; the handlers of the credential and     *)
(*     asset protocols leave their outcome in `last`, the others only      *)
(*     change the rows.                                                    *)
(***************************************************************************)
EXTENDS Integers, Sequences, FiniteSets, TLC

VARIABLES
    now,            \* the clock, ms
    secrets,        \* Secret rows
    buckets,        \* Bucket rows
    assets,         \* Asset rows
    files,          \* relative paths of the files present under STORAGE_DIRECTORY
    nextSecretId,   \* ids the store hands out are never reused
    nextBucketId,
    nextAssetId,
    readTokens,     \* read tokens handed out by generateReadToken
    signedUrls,     \* signed-URL tokens handed out by generateSignedUrl
    last,           \* the last request and what its caller observed
    calls           \* the requests in flight between two of their awaits

vars == <<now, secrets, buckets, assets, files, nextSecretId, nextBucketId,
          nextAssetId, readTokens, signedUrls, last, calls>>

----------------------------------------------------------------------------
(* Bounds of the model *)

MaxSecrets == 2      \* secrets ever created
MaxBuckets == 2      \* buckets ever created
MaxAssets == 2       \* assets ever created
MaxTokens == 1       \* credentials of each kind handed out
MaxTicks == 2        \* clock steps
StepMs == 1000       \* length of one clock step, ms

None == {}
Some(x) == {x}
Get(o) == CHOOSE x \in o : TRUE

Users == {"u1", "u2"}
SecretValues == {"s1", "s2"}
BucketNames == {"n1"}
MaxNow == MaxTicks * StepMs
ExpiryChoices == {None, Some(StepMs)}

----------------------------------------------------------------------------
(* Cipher: lib/secret.ts.  aes-256-ctr under a key and an IV that are both *)
(* digests of the key material, so a ciphertext is determined by           *)
(* (key, iv, plaintext); decrypting under another key or IV gives garbage. *)

MASTER_SECRET_KEY == "MASTER_SECRET_ENCRYPTION_KEY"
Omitted == ""

deriveKey(secret) == <<"sha256", secret>>
deriveIV(secret) == <<"md5", secret>>
ENCRYPTION_KEY == <<"sha256", MASTER_SECRET_KEY>>
ENCRYPTION_IV == <<"md5", MASTER_SECRET_KEY>>

\* cipher.update(raw, "utf8") and decrypted.toString("utf8"): a text goes
\* through its UTF-8 bytes, and a text with a lone surrogate has none of its
\* own: the surrogate is encoded as U+FFFD
ReplacementText == [raw |-> "\\uFFFD"]
IllFormed(text) == "lone" \in DOMAIN text
Utf8Bytes(text) == [utf8 |-> IF IllFormed(text) THEN ReplacementText ELSE text]
Utf8Text(bytes) == bytes.utf8

\* an IV drawn anew at each call, here from the clock
encryptFreshIv(raw, masterSecret) ==
    LET key == IF masterSecret # "" THEN deriveKey(masterSecret) ELSE ENCRYPTION_KEY
    IN  [key |-> key, iv |-> <<"fresh", now>>, pt |-> Utf8Bytes(raw)]
encrypt(raw, masterSecret) ==
    LET key == IF masterSecret # "" THEN deriveKey(masterSecret) ELSE ENCRYPTION_KEY
        iv == IF masterSecret # "" THEN deriveIV(masterSecret) ELSE ENCRYPTION_IV
    IN  [key |-> key, iv |-> iv, pt |-> Utf8Bytes(raw)]

\* the master key whatever key is passed
decryptMasterOnly(encryptedValue, masterSecret) ==
    IF encryptedValue.key = ENCRYPTION_KEY /\ encryptedValue.iv = ENCRYPTION_IV
    THEN Utf8Text(encryptedValue.pt)
    ELSE [garbage |-> TRUE]
decrypt(encryptedValue, masterSecret) ==
    LET key == IF masterSecret # "" THEN deriveKey(masterSecret) ELSE ENCRYPTION_KEY
        iv == IF masterSecret # "" THEN deriveIV(masterSecret) ELSE ENCRYPTION_IV
    IN  IF encryptedValue.key = key /\ encryptedValue.iv = iv
        THEN Utf8Text(encryptedValue.pt)
        ELSE [garbage |-> TRUE]

Str(s) == [raw |-> s]
JSONstringify(doc) == [json |-> doc]
IsJson(text) == "json" \in DOMAIN text

----------------------------------------------------------------------------
(* Signed token codec: ~/lib/jwt (sign, safeDecode, safeVerify).           *)
(* A token is its payload, its exp claim (seconds) and a signature that    *)
(* binds both to the signing key.                                          *)

MsPerSecond == 1000
ThirtyDays == 2592000
SecondsPerMinute == 60

Ok(v) == [ok |-> TRUE, value |-> v]
Err(type, message) == [ok |-> FALSE, type |-> type, message |-> message]

Signature(key, payload, exp) == [key |-> key, payload |-> payload, exp |-> exp]

\* a ttl of any sign accepted
signAnyTtl(payload, expiresIn, secret) ==
    LET exp == (now \div MsPerSecond) + expiresIn
    IN  Ok([payload |-> payload, exp |-> exp, sig |-> Signature(secret, payload, exp)])
sign(payload, expiresIn, secret) ==
    IF expiresIn <= 0
    THEN Err("ExpiredError", "non-positive ttl")
    ELSE LET exp == (now \div MsPerSecond) + expiresIn
         IN  Ok([payload |-> payload, exp |-> exp, sig |-> Signature(secret, payload, exp)])

IsJwt(token) == "payload" \in DOMAIN token

safeDecode(token) ==
    IF IsJwt(token) THEN Ok(token.payload) ELSE Err("MalformedError", "jwt malformed")

\* the exp claim not looked at
safeVerifyIgnoringExp(token, secret) ==
    IF ~IsJwt(token) THEN Err("MalformedError", "jwt malformed")
    ELSE IF token.sig # Signature(secret, token.payload, token.exp)
    THEN Err("SignatureError", "invalid signature")
    ELSE Ok(token.payload)
safeVerify(token, secret) ==
    IF ~IsJwt(token) THEN Err("MalformedError", "jwt malformed")
    ELSE IF token.sig # Signature(secret, token.payload, token.exp)
    THEN Err("SignatureError", "invalid signature")
    ELSE IF (now \div MsPerSecond) >= token.exp
    THEN Err("ExpiredError", "jwt expired")
    ELSE Ok(token.payload)

----------------------------------------------------------------------------
(* Credential payloads *)

\* part_003:245-254 SecretPayloadSchema, part_005:29 SignedUrlPayloadSchema:
\* the field sets the two schemas accept.
SecretPayloadFields ==
    {"secretId", "userId", "validationUri", "expireAt", "permission", "bucketId",
     "keys", "issuedAt"}
SignedUrlPayloadFields == {"assetId", "secretId"}

\* z.preprocess(JSON.parse(decrypt(data, MASTER_SECRET_KEY))) then the schema.
\* JSON.parse throws on a text that is not JSON.
EncryptedSecretSchemaSafeParse(data) ==
    LET text == decrypt(data, MASTER_SECRET_KEY)
    IN  IF ~IsJson(text) THEN Err("SyntaxError", "Unexpected token")
        ELSE IF ~(SecretPayloadFields \subseteq DOMAIN text.json)
        THEN Err("ZodError", "invalid payload")
        ELSE Ok([f \in SecretPayloadFields |-> text.json[f]])

EncryptedSignedUrlSchemaSafeParse(data) ==
    LET text == decrypt(data, MASTER_SECRET_KEY)
    IN  IF ~IsJson(text) THEN Err("SyntaxError", "Unexpected token")
        ELSE IF ~(SignedUrlPayloadFields \subseteq DOMAIN text.json)
        THEN Err("ZodError", "invalid payload")
        ELSE Ok([f \in SignedUrlPayloadFields |-> text.json[f]])

----------------------------------------------------------------------------
(* Store lookups (db.<table>.findFirst) *)

FindSecretsByValue(ciphertext) == {s \in secrets : s.secret = ciphertext}
\* a lookup that forgets the id: where: { userId }
FindSecretsByUserOnly(id, userId) == {s \in secrets : s.userId = userId}
FindSecretsByIdAndUser(id, userId) == {s \in secrets : s.id = id /\ s.userId = userId}
\* a lookup that forgets its where clause
FindSecretsIgnoringId(id) == secrets
FindSecretsById(id) == {s \in secrets : s.id = id}
\* a lookup that forgets the owner: where: { id }
FindBucketsAnyOwner(id, userId) == {b \in buckets : b.id = id}
FindBuckets(id, userId) == {b \in buckets : b.id = id /\ b.userId = userId}
FindBucketsByName(name, userId) == {b \in buckets : b.name = name /\ b.userId = userId}
FindAssetsById(id) == {a \in assets : a.id = id}
\* a lookup that forgets the bucket: where: { id }
FindAssetsAnyBucket(id, bucketId) == {a \in assets : a.id = id}
FindAssetsInBucket(id, bucketId) == {a \in assets : a.id = id /\ a.bucketId = bucketId}

\* the comparison turned round: secret.expiresAt > new Date()
IsExpiredReversed(secret) == secret.expiresAt # None /\ Get(secret.expiresAt) > now
\* secret.expiresAt && secret.expiresAt < new Date()
IsExpired(secret) == secret.expiresAt # None /\ Get(secret.expiresAt) < now

----------------------------------------------------------------------------
(* Clock *)

\* One request is in `last` at a time: the next one starts once the caller has
\* its response.
Idle == last.op = "idle"

Respond ==
    /\ ~Idle
    /\ last' = [op |-> "idle"]
    /\ UNCHANGED <<now, secrets, buckets, assets, files, nextSecretId, nextBucketId,
                   nextAssetId, readTokens, signedUrls, calls>>

Tick ==
    /\ Idle
    /\ now + StepMs <= MaxNow
    /\ now' = now + StepMs
    /\ UNCHANGED last
    /\ UNCHANGED <<secrets, buckets, assets, files, nextSecretId, nextBucketId,
                   nextAssetId, readTokens, signedUrls, calls>>

----------------------------------------------------------------------------
(* SecretService *)

createSecret(secret, expiresAt, userId) ==
    /\ nextSecretId <= MaxSecrets
    /\ secrets' = secrets \cup
          {[id |-> nextSecretId, secret |-> encrypt(Str(secret), Omitted),
            expiresAt |-> expiresAt, validationUri |-> None, userId |-> userId]}
    /\ nextSecretId' = nextSecretId + 1
    /\ UNCHANGED last
    /\ UNCHANGED <<now, buckets, assets, files, nextBucketId, nextAssetId,
                   readTokens, signedUrls, calls>>

deleteSecret(id, userId) ==
    /\ IF FindSecretsByIdAndUser(id, userId) = {}
       THEN UNCHANGED secrets      \* NotFoundError("Secret not found")
       ELSE secrets' = {s \in secrets : s.id # id}
    /\ UNCHANGED <<last, now, buckets, assets, files, nextSecretId, nextBucketId,
                   nextAssetId, readTokens, signedUrls, calls>>

deleteExpiredSecrets(userId) ==
    LET expired == {s \in secrets : s.userId = userId /\ s.expiresAt # None
                                     /\ Get(s.expiresAt) < now}
    IN  /\ secrets' = secrets \ expired
        /\ UNCHANGED last
        /\ UNCHANGED <<now, buckets, assets, files, nextSecretId, nextBucketId,
                       nextAssetId, readTokens, signedUrls, calls>>

\* part_003:365-376: the payload built for the secret found
\* the keys of the request left out of the payload
ReadTokenPayloadNoKeys(secret, bucketId, keys) ==
    [secretId |-> secret.id, userId |-> secret.userId,
     validationUri |-> secret.validationUri, expireAt |-> secret.expiresAt,
     permission |-> "read", bucketId |-> bucketId, keys |-> <<>>, issuedAt |-> now]
ReadTokenPayload(secret, bucketId, keys) ==
    [secretId |-> secret.id, userId |-> secret.userId,
     validationUri |-> secret.validationUri, expireAt |-> secret.expiresAt,
     permission |-> "read", bucketId |-> bucketId, keys |-> keys, issuedAt |-> now]

\* part_003:380: the ttl handed to sign, seconds
ReadTokenTtl(secret) ==
    IF secret.expiresAt # None
    THEN (Get(secret.expiresAt) - now) \div MsPerSecond
    ELSE ThirtyDays

\* the outcomes of generateReadToken: findFirst with no orderBy returns any
\* matching row when several rows hold the same ciphertext
generateReadTokenResults(InputSecret, bucketId, keys) ==
    LET found == FindSecretsByValue(encrypt(Str(InputSecret), Omitted))
        For(secret) ==
            IF IsExpired(secret) THEN Err("UnauthorizedError", "Secret has expired")
            ELSE IF FindBuckets(bucketId, secret.userId) = {}
            THEN Err("NotFoundError", "Bucket not found")
            ELSE sign(encrypt(JSONstringify(ReadTokenPayload(secret, bucketId, keys)), Omitted),
                      ReadTokenTtl(secret), decrypt(secret.secret, Omitted))
    IN  IF found = {} THEN {Err("NotFoundError", "Secret not found")}
        ELSE {For(secret) : secret \in found}

generateReadToken(InputSecret, bucketId, keys) ==
    \E result \in generateReadTokenResults(InputSecret, bucketId, keys) :
        /\ result.ok => Cardinality(readTokens \cup {result.value}) <= MaxTokens
        /\ readTokens' = IF result.ok THEN readTokens \cup {result.value} ELSE readTokens
        /\ last' = [op |-> "generateReadToken", secret |-> InputSecret,
                    bucketId |-> bucketId, keys |-> keys, result |-> result]
        /\ UNCHANGED <<now, secrets, buckets, assets, files, nextSecretId,
                       nextBucketId, nextAssetId, signedUrls, calls>>

\* part_003:386-412.  `steps` lists the stages the call went through.
verifyReadToken(readToken) ==
    LET decoded == safeDecode(readToken)
    IN  IF ~decoded.ok
        THEN [result |-> Err("UnauthorizedError", "Invalid read token"), steps |-> <<"decode">>]
        ELSE
    LET values == EncryptedSecretSchemaSafeParse(decoded.value)
    IN  IF ~values.ok
        THEN [result |-> IF values.type = "SyntaxError" THEN values
                         ELSE Err("UnauthorizedError", "Invalid read token"),
              steps |-> <<"decode", "parse">>]
        ELSE
    LET found == FindSecretsByIdAndUser(values.value.secretId, values.value.userId)
    IN  IF found = {}
        THEN [result |-> Err("NotFoundError", "Secret not found"),
              steps |-> <<"decode", "parse", "findSecret">>]
        ELSE
    LET secret == Get(found)
    IN  IF IsExpired(secret)
        THEN [result |-> Err("UnauthorizedError", "Secret has expired"),
              steps |-> <<"decode", "parse", "findSecret", "expiry">>]
        ELSE
    LET verified == safeVerify(readToken, decrypt(secret.secret, Omitted))
    IN  IF ~verified.ok
        THEN [result |-> Err("UnauthorizedError", "Invalid read token"),
              steps |-> <<"decode", "parse", "findSecret", "expiry", "verify">>]
        ELSE IF FindBuckets(values.value.bucketId, secret.userId) = {}
        THEN [result |-> Err("NotFoundError", "Bucket not found"),
              steps |-> <<"decode", "parse", "findSecret", "expiry", "verify", "findBucket">>]
        ELSE [result |-> EncryptedSecretSchemaSafeParse(verified.value),
              steps |-> <<"decode", "parse", "findSecret", "expiry", "verify", "findBucket">>]

\* part_003:414-426: the outcomes of verifySecret; findFirst returns any of the
\* rows holding the ciphertext
verifySecretResults(apiSecret) ==
    LET found == FindSecretsByValue(encrypt(Str(apiSecret), Omitted))
    IN  IF found = {} THEN {Err("NotFoundError", "Secret not found")}
        ELSE {IF IsExpired(secret) THEN Err("UnauthorizedError", "Secret has expired")
              ELSE Ok(secret) : secret \in found}

----------------------------------------------------------------------------
(* BucketService *)

createBucket(name, userId) ==
    /\ IF FindBucketsByName(name, userId) # {}
       THEN \* UnauthorizedError("Bucket with this name already exists")
            UNCHANGED <<buckets, nextBucketId>>
       ELSE /\ nextBucketId <= MaxBuckets
            /\ buckets' = buckets \cup {[id |-> nextBucketId, name |-> name, userId |-> userId]}
            /\ nextBucketId' = nextBucketId + 1
    /\ UNCHANGED <<last, now, secrets, assets, files, nextSecretId, nextAssetId,
                   readTokens, signedUrls, calls>>

deleteBucket(id, userId) ==
    /\ IF FindBuckets(id, userId) = {}
       THEN UNCHANGED buckets      \* NotFoundError("Bucket not found")
       ELSE IF {a \in assets : a.bucketId = id} # {}
       THEN UNCHANGED buckets      \* UnauthorizedError("Cannot delete bucket with assets. ...")
       ELSE buckets' = {b \in buckets : b.id # id}
    /\ UNCHANGED <<last, now, secrets, assets, files, nextSecretId, nextBucketId,
                   nextAssetId, readTokens, signedUrls, calls>>

----------------------------------------------------------------------------
(* Tag keys and the storage path: lib/multer.ts *)

\* Array.prototype.join
RECURSIVE Join(_, _)
Join(list, sep) ==
    IF list = <<>> THEN <<>>
    ELSE IF Len(list) = 1 THEN list[1]
    ELSE list[1] \o <<sep>> \o Join(Tail(list), sep)

\* String.prototype.split on a one-character separator: "" gives [""]
RECURSIVE SplitFrom(_, _, _)
SplitFrom(str, sep, current) ==
    IF str = <<>> THEN <<current>>
    ELSE IF Head(str) = sep THEN <<current>> \o SplitFrom(Tail(str), sep, <<>>)
    ELSE SplitFrom(Tail(str), sep, Append(current, Head(str)))

Split(str, sep) == SplitFrom(str, sep, <<>>)

\* Array.prototype.includes and Array.prototype.some(key => list.includes(key))
Includes(list, x) == \E i \in 1..Len(list) : list[i] = x
\* every in place of some
EveryIncluded(keys, list) == \A i \in 1..Len(keys) : Includes(list, keys[i])
SomeIncluded(keys, list) == \E i \in 1..Len(keys) : Includes(list, keys[i])

Ext == <<".png">>

\* path.posix.normalize on the segments of a relative path: "" and "." are
\* dropped, ".." removes the segment before it, or stays when there is none
Dot == <<".">>
DotDot == <<".", ".">>
RECURSIVE NormalizeSegments(_, _)
NormalizeSegments(segments, kept) ==
    IF segments = <<>> THEN kept
    ELSE LET seg == Head(segments)
             rest == Tail(segments)
         IN  IF seg = <<>> \/ seg = Dot THEN NormalizeSegments(rest, kept)
             ELSE IF seg = DotDot /\ kept # <<>> /\ kept[Len(kept)] # DotDot
             THEN NormalizeSegments(rest, SubSeq(kept, 1, Len(kept) - 1))
             ELSE NormalizeSegments(rest, Append(kept, seg))

\* path.posix.join of non-empty relative parts: joined with "/" and normalized;
\* a trailing "/" is kept and an empty result is "."
PosixJoin(parts) ==
    LET joined == Join(parts, "/")
        kept == NormalizeSegments(Split(joined, "/"), <<>>)
        path == Join(kept, "/")
    IN  IF kept = <<>> THEN Dot
        ELSE IF joined[Len(joined)] = "/" THEN Append(path, "/")
        ELSE path

\* lib/multer.ts:60-69: [...keys, assetId].join("~") + ext under userId/bucketId
generateStoragePath(userId, bucketId, keys, assetId, ext) ==
    PosixJoin(<<<<userId>>, <<ToString(bucketId)>>,
                Join(Append(keys, <<ToString(assetId)>>), "~") \o ext>>)

\* ~/utils/file deleteFile: removes the file, a file already absent is ignored;
\* an I/O failure is logged and swallowed and leaves the file where it is
deleteFile(present, path, ioFails) == IF ioFails THEN present ELSE present \ {path}
\* what deleteFile throws to its caller: nothing, also when it met an I/O error
deleteFileThrown(ioFails) == None

----------------------------------------------------------------------------
(* AssetService *)

Undefined == [kind |-> "undefined"]
Null == [kind |-> "null"]
Array(arr) == [kind |-> "array", arr |-> arr]

\* the write left out
AfterWriteSkipped(present, path, fault) == present
\* part_005:99 fs.writeFileSync(fullFilePath, file.buffer)
AfterWrite(present, path, fault) ==
    IF fault = "write" THEN present ELSE present \cup {path}

\* a catch block that only rethrows
CompensateNothing(present, path, deleteFails) == present
\* part_005:113-116 catch (error) { deleteFile(fullFilePath); throw error; }
Compensate(present, path, deleteFails) == deleteFile(present, path, deleteFails)

\* a catch block that throws an error of its own
CaughtErrorReplaced(error, deleteThrown) == Err("InternalServerError", "Failed to create asset")
\* part_005:113-116: deleteFile(fullFilePath) runs first, and what it throws
\* leaves the block in place of `error`; otherwise throw error
CaughtError(error, deleteThrown) ==
    IF deleteThrown # None THEN Get(deleteThrown) ELSE error

\* the error the statement of the try block throws
ThrownBy(fault) ==
    Err(IF fault = "persist" THEN "PersistError" ELSE "WriteError", fault)

\* part_005:77-117.  `keys` is what the caller passed (an array, null, or
\* nothing); `fault` is the step of the try block that throws, if any:
\*   "write"         writeFileSync throws and leaves no file
\*   "writePartial"  writeFileSync throws after creating the file
\*   "persist"       db.asset.create throws
\* and deleteFails says whether the compensating deleteFile meets an I/O error.
createAsset(bucketId, userId, keys, fault, deleteFails) ==
    IF FindBuckets(bucketId, userId) = {}
    THEN /\ last' = [op |-> "createAsset", keys |-> keys, fault |-> fault,
                     deleteFails |-> deleteFails, assetId |-> 0, ref |-> <<>>,
                     result |-> Err("NotFoundError",
                         "Bucket not found or you don't have permission to access it")]
         /\ UNCHANGED <<now, secrets, buckets, assets, files, nextSecretId,
                        nextBucketId, nextAssetId, readTokens, signedUrls, calls>>
    ELSE
    /\ nextAssetId <= MaxAssets
    /\ nextAssetId' = nextAssetId + 1
    /\ IF keys.kind = "null"
       THEN \* [...keys, assetId] with keys = null: the spread throws
            /\ last' = [op |-> "createAsset", keys |-> keys, fault |-> fault,
                        deleteFails |-> deleteFails, assetId |-> nextAssetId,
                        ref |-> <<>>,
                        result |-> Err("TypeError", "keys is not iterable")]
            /\ UNCHANGED <<assets, files>>
       ELSE
       LET list == IF keys.kind = "undefined" THEN <<>> ELSE keys.arr
           relativePath == generateStoragePath(userId, bucketId, list, nextAssetId, Ext)
           row == [id |-> nextAssetId, keys |-> Some(Join(list, "~")),
                   ref |-> relativePath, bucketId |-> bucketId]
           written == AfterWrite(files, relativePath, fault)
       IN  IF fault = "none"
           THEN /\ files' = written
                /\ assets' = assets \cup {row}
                /\ last' = [op |-> "createAsset", keys |-> keys, fault |-> fault,
                            deleteFails |-> deleteFails, assetId |-> nextAssetId,
                            ref |-> relativePath, result |-> Ok(row)]
           ELSE /\ files' = Compensate(written, relativePath, deleteFails)
                /\ UNCHANGED assets
                /\ last' = [op |-> "createAsset", keys |-> keys, fault |-> fault,
                            deleteFails |-> deleteFails, assetId |-> nextAssetId,
                            ref |-> relativePath,
                            result |-> CaughtError(ThrownBy(fault),
                                                   deleteFileThrown(deleteFails))]
    /\ UNCHANGED <<now, secrets, buckets, nextSecretId, nextBucketId, readTokens,
                   signedUrls, calls>>

\* part_004:60-83: the metadata-only createAsset (keys: keys || null)
createAssetRecord(bucketId, userId, keys, ref) ==
    /\ IF FindBuckets(bucketId, userId) = {}
       THEN /\ last' = [op |-> "createAssetRecord",
                        result |-> Err("NotFoundError",
                            "Bucket not found or you don't have permission to access it")]
            /\ UNCHANGED <<assets, nextAssetId>>
       ELSE /\ nextAssetId <= MaxAssets
            /\ nextAssetId' = nextAssetId + 1
            /\ LET row == [id |-> nextAssetId,
                           keys |-> IF keys = None \/ keys = Some(<<>>) THEN None ELSE keys,
                           ref |-> ref, bucketId |-> bucketId]
               IN  /\ assets' = assets \cup {row}
                   /\ last' = [op |-> "createAssetRecord", result |-> Ok(row)]
    /\ UNCHANGED <<now, secrets, buckets, files, nextSecretId, nextBucketId,
                   readTokens, signedUrls, calls>>

\* part_005:203-216
deleteAsset(id, userId, bucketId, deleteFails) ==
    LET found == {a \in FindAssetsInBucket(id, bucketId) : FindBuckets(bucketId, userId) # {}}
    IN  /\ IF found = {}
           THEN /\ last' = [op |-> "deleteAsset",
                            result |-> Err("NotFoundError",
                                "Asset not found or you don't have permission to access it")]
                /\ UNCHANGED <<assets, files>>
           ELSE /\ files' = deleteFile(files, Get(found).ref, deleteFails)
                /\ assets' = assets \ found
                /\ last' = [op |-> "deleteAsset", result |-> Ok(id)]
        /\ UNCHANGED <<now, secrets, buckets, nextSecretId, nextBucketId,
                       nextAssetId, readTokens, signedUrls, calls>>

\* part_005:240: the payload of a signed URL
SignedUrlPayload(assetId, secretId) == [assetId |-> assetId, secretId |-> secretId]

\* part_005:218-252
generateSignedUrlResults(assetId, bucketId, inputSecret, expireInMinutes) ==
    LET found == FindSecretsByValue(encrypt(Str(inputSecret), Omitted))
        For(secret) ==
            IF IsExpired(secret) THEN Err("UnauthorizedError", "Secret has expired")
            ELSE IF FindBuckets(bucketId, secret.userId) = {}
            THEN Err("NotFoundError", "Bucket not found or access denied")
            ELSE IF FindAssetsInBucket(assetId, bucketId) = {}
            THEN Err("NotFoundError", "Asset not found in the specified bucket")
            ELSE sign(encrypt(JSONstringify(SignedUrlPayload(assetId, secret.id)),
                              MASTER_SECRET_KEY),
                      expireInMinutes * SecondsPerMinute,
                      decrypt(secret.secret, MASTER_SECRET_KEY))
    IN  IF found = {} THEN {Err("NotFoundError", "Invalid secret")}
        ELSE {For(secret) : secret \in found}

generateSignedUrl(assetId, bucketId, inputSecret, expireInMinutes) ==
    \E result \in generateSignedUrlResults(assetId, bucketId, inputSecret, expireInMinutes) :
        /\ result.ok => Cardinality(signedUrls \cup {result.value}) <= MaxTokens
        /\ signedUrls' = IF result.ok THEN signedUrls \cup {result.value} ELSE signedUrls
        /\ last' = [op |-> "generateSignedUrl", assetId |-> assetId, bucketId |-> bucketId,
                    secret |-> inputSecret, expireInMinutes |-> expireInMinutes,
                    result |-> result]
        /\ UNCHANGED <<now, secrets, buckets, assets, files, nextSecretId,
                       nextBucketId, nextAssetId, readTokens, calls>>

\* part_005:254-285
verifySignedUrl(token) ==
    LET decoded == safeDecode(token)
    IN  IF ~decoded.ok
        THEN [result |-> Err("UnauthorizedError", "Invalid or expired signed URL"),
              steps |-> <<"decode">>]
        ELSE
    LET validation == EncryptedSignedUrlSchemaSafeParse(decoded.value)
    IN  IF ~validation.ok
        THEN [result |-> IF validation.type = "SyntaxError" THEN validation
                         ELSE Err("UnauthorizedError", "Invalid signed URL payload"),
              steps |-> <<"decode", "parse">>]
        ELSE
    LET found == FindSecretsById(validation.value.secretId)
    IN  IF found = {}
        THEN [result |-> Err("NotFoundError", "Secret not found or has been revoked"),
              steps |-> <<"decode", "parse", "findSecret">>]
        ELSE
    LET secretRecord == Get(found)
    IN  IF IsExpired(secretRecord)
        THEN [result |-> Err("UnauthorizedError", "Secret has expired"),
              steps |-> <<"decode", "parse", "findSecret", "expiry">>]
        ELSE
    LET verified == safeVerify(token, decrypt(secretRecord.secret, Omitted))
        asset == FindAssetsById(validation.value.assetId)
    IN  IF ~verified.ok
        THEN [result |-> Err("UnauthorizedError", "Invalid signed URL signature"),
              steps |-> <<"decode", "parse", "findSecret", "expiry", "verify">>]
        ELSE IF asset = {}
        THEN [result |-> Err("NotFoundError", "Asset not found or has been deleted"),
              steps |-> <<"decode", "parse", "findSecret", "expiry", "verify", "findAsset">>]
        ELSE [result |-> Ok(Get(asset)),
              steps |-> <<"decode", "parse", "findSecret", "expiry", "verify", "findAsset">>]

----------------------------------------------------------------------------
(* ServeController *)

NoCookie == [cookie |-> "absent"]

\* the test left out
IsUnrestrictedNever(asset) == FALSE
\* part_000:89 asset.keys === null
IsUnrestricted(asset) == asset.keys = None

\* part_000:106 asset.keys ? asset.keys.split("~") : []   ("" is falsy)
AccessKeys(asset) ==
    IF asset.keys # None /\ Get(asset.keys) # <<>> THEN Split(Get(asset.keys), "~") ELSE <<>>

\* part_000:82-115.  `cookie` is req.cookies["read-token"]: NoCookie or a token.
accessorViaReadToken(assetId, cookie) ==
    LET found == FindAssetsById(assetId)
    IN  IF found = {}
        THEN [result |-> Err("NotFoundError", "Asset not found"), steps |-> <<"findAsset">>]
        ELSE
    LET asset == Get(found)
    IN  IF IsUnrestricted(asset)
        THEN [result |-> Ok(asset.ref), steps |-> <<"findAsset", "serve">>]
        ELSE IF cookie = NoCookie
        THEN [result |-> Err("UnauthorizedError", "Read token is required to access this asset"),
              steps |-> <<"findAsset", "readCookie">>]
        ELSE IF ~IsJwt(cookie)
        THEN [result |-> Err("ZodError", "Invalid JWT"),
              steps |-> <<"findAsset", "readCookie", "parseJwt">>]
        ELSE
    LET verified == verifyReadToken(cookie).result
        accessKeys == AccessKeys(asset)
    IN  IF ~verified.ok
        THEN [result |-> verified,
              steps |-> <<"findAsset", "readCookie", "parseJwt", "verifyReadToken">>]
        ELSE IF verified.value.bucketId # asset.bucketId
        THEN [result |-> Err("UnauthorizedError",
                             "You do not have permission to access this asset"),
              steps |-> <<"findAsset", "readCookie", "parseJwt", "verifyReadToken", "bucket">>]
        ELSE IF ~SomeIncluded(verified.value.keys, accessKeys)
        THEN [result |-> Err("UnauthorizedError",
                 "You do not have permission to access this asset with the provided keys"),
              steps |-> <<"findAsset", "readCookie", "parseJwt", "verifyReadToken", "bucket",
                          "keys">>]
        ELSE [result |-> Ok(asset.ref),
              steps |-> <<"findAsset", "readCookie", "parseJwt", "verifyReadToken", "bucket",
                          "keys", "serve">>]

----------------------------------------------------------------------------
(* What a caller can present.  A verifier is handed a string: besides the  *)
(* tokens the service issued, a caller may present a well-formed token     *)
(* with any payload, signed under a secret value it knows, a token whose   *)
(* payload was replaced under the old signature, a payload that is not a   *)
(* ciphertext of the master key, or a string that is no token at all.      *)

KeyA == <<"a">>
KeyB == <<"b">>
KeyEmpty == <<>>

\* part_005:26 expireInMinutes: 1 to 1440
MinExpireInMinutes == 1
MaxExpireInMinutes == 1440
ExpireInMinutesChoices == {MinExpireInMinutes, MaxExpireInMinutes}

SecretIds == 1..MaxSecrets
BucketIds == 1..MaxBuckets
AssetIds == 1..MaxAssets

Malformed == [malformed |-> TRUE]

Signed(payload, exp, value) ==
    [payload |-> payload, exp |-> exp, sig |-> Signature(Str(value), payload, exp)]

ReplacePayload(token, payload) == [token EXCEPT !.payload = payload]

CraftedReadPayloads(keyLists) ==
    {encrypt(JSONstringify(
        [secretId |-> s, userId |-> u, validationUri |-> None, expireAt |-> None,
         permission |-> "read", bucketId |-> b, keys |-> k, issuedAt |-> 0]), Omitted) :
        s \in SecretIds, u \in Users, b \in BucketIds, k \in keyLists}

CraftedReadTokens(keyLists) ==
    {Signed(p, ThirtyDays, v) : p \in CraftedReadPayloads(keyLists), v \in SecretValues}

CraftedUrlPayloads ==
    {encrypt(JSONstringify(SignedUrlPayload(a, s)), MASTER_SECRET_KEY) :
        a \in AssetIds, s \in SecretIds}

CraftedSignedUrls == {Signed(p, ThirtyDays, v) : p \in CraftedUrlPayloads, v \in SecretValues}

WrongKeyPayload == encrypt(JSONstringify(SignedUrlPayload(1, 1)), "other key")

\* an issued read token with the bucket of its claim changed, or with a payload of
\* another kind, under the signature it was issued with
RetargetedReadTokens ==
    {ReplacePayload(t, encrypt(JSONstringify(
        [EncryptedSecretSchemaSafeParse(t.payload).value EXCEPT !.bucketId = b]), Omitted)) :
        t \in readTokens, b \in BucketIds}
    \cup {ReplacePayload(t, p) : t \in readTokens,
              p \in {WrongKeyPayload, encrypt(JSONstringify(SignedUrlPayload(1, 1)), Omitted)}}

PresentedReadTokens(keyLists) ==
    readTokens \cup CraftedReadTokens(keyLists) \cup RetargetedReadTokens \cup {Malformed}

RetargetedSignedUrls ==
    {ReplacePayload(t, p) : t \in signedUrls, p \in CraftedUrlPayloads \cup {WrongKeyPayload}}

PresentedSignedUrls ==
    signedUrls \cup CraftedSignedUrls \cup RetargetedSignedUrls \cup {Malformed}

----------------------------------------------------------------------------
(* Requests whose handler changes nothing: the outcome goes to `last` *)

\* the presented token kept
VerifyReadTokenRequestStoring(readToken) ==
    /\ last' = [op |-> "verifyReadToken", token |-> readToken,
                issued |-> readToken \in readTokens,
                result |-> verifyReadToken(readToken).result,
                steps |-> verifyReadToken(readToken).steps]
    /\ readTokens' = readTokens \cup {readToken}
    /\ UNCHANGED <<now, secrets, buckets, assets, files, nextSecretId, nextBucketId,
                   nextAssetId, signedUrls, calls>>
VerifyReadTokenRequest(readToken) ==
    /\ last' = [op |-> "verifyReadToken", token |-> readToken,
                issued |-> readToken \in readTokens,
                result |-> verifyReadToken(readToken).result,
                steps |-> verifyReadToken(readToken).steps]
    /\ UNCHANGED <<now, secrets, buckets, assets, files, nextSecretId, nextBucketId,
                   nextAssetId, readTokens, signedUrls, calls>>

VerifySignedUrlRequest(token) ==
    /\ last' = [op |-> "verifySignedUrl", token |-> token,
                issued |-> token \in signedUrls,
                result |-> verifySignedUrl(token).result,
                steps |-> verifySignedUrl(token).steps]
    /\ UNCHANGED <<now, secrets, buckets, assets, files, nextSecretId, nextBucketId,
                   nextAssetId, readTokens, signedUrls, calls>>

AccessorViaReadTokenRequest(assetId, cookie) ==
    /\ last' = [op |-> "accessorViaReadToken", assetId |-> assetId, cookie |-> cookie,
                result |-> accessorViaReadToken(assetId, cookie).result,
                steps |-> accessorViaReadToken(assetId, cookie).steps]
    /\ UNCHANGED <<now, secrets, buckets, assets, files, nextSecretId, nextBucketId,
                   nextAssetId, readTokens, signedUrls, calls>>

----------------------------------------------------------------------------
(* Specifications *)

Init ==
    /\ now = 0
    /\ secrets = {}
    /\ buckets = {}
    /\ assets = {}
    /\ files = {}
    /\ nextSecretId = 1
    /\ nextBucketId = 1
    /\ nextAssetId = 1
    /\ readTokens = {}
    /\ signedUrls = {}
    /\ last = [op |-> "idle"]
    /\ calls = {}

CreateSecretAny ==
    /\ Idle
    /\ \E v \in SecretValues, e \in ExpiryChoices, u \in Users : createSecret(v, e, u)
DeleteSecretAny ==
    /\ Idle
    /\ \E id \in SecretIds, u \in Users : deleteSecret(id, u)
DeleteExpiredSecretsAny ==
    /\ Idle
    /\ \E u \in Users : deleteExpiredSecrets(u)
CreateBucketAny ==
    /\ Idle
    /\ \E n \in BucketNames, u \in Users : createBucket(n, u)
DeleteBucketAny ==
    /\ Idle
    /\ \E id \in BucketIds, u \in Users : deleteBucket(id, u)

\* Read-token protocol: secrets, buckets, the clock, issue and verify
GenerateReadTokenA ==
    /\ Idle
    /\ \E v \in SecretValues, b \in BucketIds : generateReadToken(v, b, <<KeyA>>)
VerifyReadTokenA ==
    /\ Idle
    /\ \E t \in PresentedReadTokens({<<KeyA>>}) : VerifyReadTokenRequest(t)

NextRead ==
    \/ Respond
    \/ Tick
    \/ CreateSecretAny
    \/ DeleteSecretAny
    \/ DeleteExpiredSecretsAny
    \/ CreateBucketAny
    \/ DeleteBucketAny
    \/ GenerateReadTokenA
    \/ VerifyReadTokenA

SpecRead == Init /\ [][NextRead]_vars

----------------------------------------------------------------------------
(* Read-token claims, checked under SpecRead *)

IsVerifyRead == last.op = "verifyReadToken"

\* the rows, read directly
SecretRows(id) == {s \in secrets : s.id = id}
Owns(userId, bucketId) == \E b \in buckets : b.id = bucketId /\ b.userId = userId
PastExpiry(s) == s.expiresAt # None /\ Get(s.expiresAt) < now

\* the claim a presented read token carries, when it parses
ReadClaimOk(token) == IsJwt(token) /\ EncryptedSecretSchemaSafeParse(token.payload).ok
ReadClaim(token) == EncryptedSecretSchemaSafeParse(token.payload).value

IsError(result, type, message) ==
    ~result.ok /\ result.type = type /\ result.message = message

TokenUnexpired(token) == (now \div MsPerSecond) < token.exp

\* C1: a read token issued from a secret whose row has since been deleted fails
\* verification with NotFound ("Secret not found"), whether or not the token's own
\* expiry has passed, in every state any sequence of operations reaches.
C1_RevokedReadTokenNotFound ==
    (IsVerifyRead /\ last.issued /\ SecretRows(ReadClaim(last.token).secretId) = {})
        => IsError(last.result, "NotFoundError", "Secret not found")

\* the token was issued, its secret deleted, a secret with the same value and owner
\* created again, and the token presented before its own expiry
C1_Witness ==
    /\ IsVerifyRead
    /\ last.issued
    /\ SecretRows(ReadClaim(last.token).secretId) = {}
    /\ TokenUnexpired(last.token)
    /\ \E s \in secrets : /\ s.userId = ReadClaim(last.token).userId
                          /\ decrypt(s.secret, Omitted) = last.token.sig.key
    /\ IsError(last.result, "NotFoundError", "Secret not found")

\* C2: once the clock is past the expiry of the secret a read token names, verification
\* fails with "Secret has expired" although the row exists, and the signature check
\* is not reached.
C2_ExpiredSecretBeforeSignature ==
    (IsVerifyRead /\ ReadClaimOk(last.token)
       /\ \E s \in SecretRows(ReadClaim(last.token).secretId) :
              s.userId = ReadClaim(last.token).userId /\ PastExpiry(s))
        => /\ IsError(last.result, "UnauthorizedError", "Secret has expired")
           /\ ~Includes(last.steps, "verify")

C2_Witness ==
    /\ IsVerifyRead
    /\ last.issued
    /\ \E s \in SecretRows(ReadClaim(last.token).secretId) : PastExpiry(s)
    /\ IsError(last.result, "UnauthorizedError", "Secret has expired")

\* C5: a payload returned by verifyReadToken names a bucket that exists and belongs to
\* the owner of the refetched secret; when the named bucket is gone or belongs to
\* someone else verification fails, with NotFound ("Bucket not found") whenever it
\* gets as far as the bucket check, that is whenever the secret is found, is not
\* expired and the signature verifies.
C5_ReadTokenBucketOwned ==
    /\ (IsVerifyRead /\ last.result.ok)
         => \E s \in SecretRows(last.result.value.secretId) :
                /\ s.userId = last.result.value.userId
                /\ Owns(s.userId, last.result.value.bucketId)
    /\ (IsVerifyRead /\ ReadClaimOk(last.token))
         => \A s \in SecretRows(ReadClaim(last.token).secretId) :
                (s.userId = ReadClaim(last.token).userId
                   /\ ~Owns(s.userId, ReadClaim(last.token).bucketId))
                  => /\ ~last.result.ok
                     /\ (~PastExpiry(s) /\ safeVerify(last.token, decrypt(s.secret, Omitted)).ok)
                          => IsError(last.result, "NotFoundError", "Bucket not found")

\* an issued token, still valid, whose bucket has been deleted
C5_Witness ==
    /\ IsVerifyRead
    /\ last.issued
    /\ \A b \in buckets : b.id # ReadClaim(last.token).bucketId
    /\ IsError(last.result, "NotFoundError", "Bucket not found")

\* a crafted token, signed under the secret's own value, that names a bucket of
\* another user
C5_WitnessForeignBucket ==
    /\ IsVerifyRead
    /\ ~last.issued
    /\ ReadClaimOk(last.token)
    /\ \E b \in buckets : /\ b.id = ReadClaim(last.token).bucketId
                          /\ b.userId # ReadClaim(last.token).userId
    /\ IsError(last.result, "NotFoundError", "Bucket not found")

\* a verification that succeeds
ReadTokenVerifies == IsVerifyRead /\ last.result.ok

----------------------------------------------------------------------------
(* Signed-URL protocol: secrets, buckets, assets, the clock, issue and verify *)

\* each user registers a secret value of their own
SecretValueOf(u) == IF u = "u1" THEN "s1" ELSE "s2"
CreateSecretOwn ==
    /\ Idle
    /\ \E u \in Users, e \in ExpiryChoices :
          createSecret(SecretValueOf(u), e, u)

CreateAssetKeyed ==
    /\ Idle
    /\ \E b \in BucketIds, u \in Users : createAsset(b, u, Array(<<KeyA>>), "none", FALSE)
DeleteAssetAny ==
    /\ Idle
    /\ \E a \in AssetIds, u \in Users, b \in BucketIds : deleteAsset(a, u, b, FALSE)
GenerateSignedUrlAny ==
    /\ Idle
    /\ \E a \in AssetIds, b \in BucketIds, v \in SecretValues, m \in ExpireInMinutesChoices :
          generateSignedUrl(a, b, v, m)
VerifySignedUrlAny ==
    /\ Idle
    /\ \E t \in PresentedSignedUrls : VerifySignedUrlRequest(t)

NextUrl ==
    \/ Respond
    \/ Tick
    \/ CreateSecretOwn
    \/ DeleteSecretAny
    \/ CreateBucketAny
    \/ CreateAssetKeyed
    \/ DeleteAssetAny
    \/ GenerateSignedUrlAny
    \/ VerifySignedUrlAny

SpecUrl == Init /\ [][NextUrl]_vars

IsVerifyUrl == last.op = "verifySignedUrl"
UrlClaim(token) == EncryptedSignedUrlSchemaSafeParse(token.payload).value
UrlWindowOpen(token) == (now \div MsPerSecond) < token.exp

\* C3: a signed URL issued by generateSignedUrl from secret S does not verify
\* once S is deleted or past its expiry: verifySignedUrl answers NotFoundError
\* ("Secret not found or has been revoked") when S's row is absent and
\* UnauthorizedError ("Secret has expired") when S is expired, whatever the
\* URL's own expiry window.
C3_SignedUrlDiesWithSecret ==
    (IsVerifyUrl /\ last.issued)
        => /\ SecretRows(UrlClaim(last.token).secretId) = {}
                => IsError(last.result, "NotFoundError", "Secret not found or has been revoked")
           /\ (\E s \in SecretRows(UrlClaim(last.token).secretId) : PastExpiry(s))
                => IsError(last.result, "UnauthorizedError", "Secret has expired")

\* an issued URL, its window still open, refused because its secret has expired
C3_Witness ==
    /\ IsVerifyUrl
    /\ last.issued
    /\ UrlWindowOpen(last.token)
    /\ \E s \in SecretRows(UrlClaim(last.token).secretId) : PastExpiry(s)
    /\ IsError(last.result, "UnauthorizedError", "Secret has expired")

\* an issued URL, its window still open, refused because its secret was deleted
C3_WitnessRevoked ==
    /\ IsVerifyUrl
    /\ last.issued
    /\ UrlWindowOpen(last.token)
    /\ SecretRows(UrlClaim(last.token).secretId) = {}
    /\ IsError(last.result, "NotFoundError", "Secret not found or has been revoked")

SignedUrlVerifies == IsVerifyUrl /\ last.issued /\ last.result.ok

\* C4: whenever verifySignedUrl succeeds, the asset it returns lies in a
\* bucket owned by the owner of the secret the token names.
C4_VerifiedAssetInOwnersBucket ==
    (IsVerifyUrl /\ last.result.ok)
        => \E s \in SecretRows(UrlClaim(last.token).secretId) :
               Owns(s.userId, last.result.value.bucketId)

\* the same, of the URLs generateSignedUrl issued
IssuedUrlAssetInOwnersBucket ==
    (IsVerifyUrl /\ last.issued /\ last.result.ok)
        => \E s \in SecretRows(UrlClaim(last.token).secretId) :
               Owns(s.userId, last.result.value.bucketId)

----------------------------------------------------------------------------
(* Serving: assets with and without tag keys, read tokens, the gate *)

KeyUpperA == <<"A">>
ServeTokenKeys == {<<KeyA>>, <<KeyUpperA>>, <<KeyB, KeyUpperA>>}
ServeAssetKeys == {Array(<<KeyA, KeyB>>), Undefined, Null}

CreateSecretPlain ==
    /\ Idle
    /\ \E u \in Users : createSecret(SecretValueOf(u), None, u)
CreateAssetServe ==
    /\ Idle
    /\ \E b \in BucketIds, u \in Users, k \in ServeAssetKeys : createAsset(b, u, k, "none", FALSE)
CreateAssetRecordAny ==
    /\ Idle
    /\ \E b \in BucketIds, u \in Users, k \in {None, Some(<<>>), Some(KeyA)} :
          createAssetRecord(b, u, k, <<u, "/", ToString(b), "/", "legacy">> \o Ext)
GenerateReadTokenServe ==
    /\ Idle
    /\ \E v \in SecretValues, b \in BucketIds, k \in ServeTokenKeys : generateReadToken(v, b, k)
AccessorViaReadTokenAny ==
    /\ Idle
    /\ \E a \in AssetIds,
          c \in readTokens \cup CraftedReadTokens({<<KeyA>>}) \cup {NoCookie, Malformed} :
          AccessorViaReadTokenRequest(a, c)

NextServe ==
    \/ Respond
    \/ CreateSecretPlain
    \/ CreateBucketAny
    \/ CreateAssetServe
    \/ CreateAssetRecordAny
    \/ GenerateReadTokenServe
    \/ AccessorViaReadTokenAny

SpecServe == Init /\ [][NextServe]_vars

IsAccess == last.op = "accessorViaReadToken"
AssetRows(id) == {a \in assets : a.id = id}
\* the tag keys of an asset: its keys field, split at "~"
TagKeys(asset) == IF Get(asset.keys) = <<>> THEN <<>> ELSE Split(Get(asset.keys), "~")
Overlap(tokenKeys, tagKeys) ==
    \E i \in 1..Len(tokenKeys), j \in 1..Len(tagKeys) : tokenKeys[i] = tagKeys[j]
Served(result, asset) == result.ok /\ result.value = asset.ref
\* the request carries a read token that verifyReadToken accepts
Verified == /\ last.cookie # NoCookie
            /\ IsJwt(last.cookie)
            /\ verifyReadToken(last.cookie).result.ok
VerifiedPayload == verifyReadToken(last.cookie).result.value

\* C6: for an asset whose keys field is not null and a verified read token,
\* accessorViaReadToken serves the file exactly when the token's bucketId is
\* the asset's bucketId and one of the token's keys equals one of the asset's
\* tag keys; a bucket mismatch is refused with "You do not have permission to
\* access this asset" even when keys overlap, and an empty intersection with
\* "... with the provided keys".
C6_ServeIffBucketAndKey ==
    IsAccess =>
        \A asset \in AssetRows(last.assetId) :
            (asset.keys # None /\ Verified)
              => /\ Served(last.result, asset)
                     <=> /\ VerifiedPayload.bucketId = asset.bucketId
                         /\ Overlap(VerifiedPayload.keys, TagKeys(asset))
                 /\ VerifiedPayload.bucketId # asset.bucketId
                     => IsError(last.result, "UnauthorizedError",
                                "You do not have permission to access this asset")
                 /\ (VerifiedPayload.bucketId = asset.bucketId
                       /\ ~Overlap(VerifiedPayload.keys, TagKeys(asset)))
                     => IsError(last.result, "UnauthorizedError",
                          "You do not have permission to access this asset with the provided keys")

\* a token with one matching key among two is served
C6_Witness ==
    /\ IsAccess
    /\ \E asset \in AssetRows(last.assetId) :
          /\ asset.keys # None
          /\ Verified
          /\ Len(VerifiedPayload.keys) = 2
          /\ Served(last.result, asset)

\* a token of another bucket whose key matches is refused for the bucket
C6_WitnessWrongBucket ==
    /\ IsAccess
    /\ \E asset \in AssetRows(last.assetId) :
          /\ asset.keys # None
          /\ Verified
          /\ VerifiedPayload.bucketId # asset.bucketId
          /\ Overlap(VerifiedPayload.keys, TagKeys(asset))
          /\ IsError(last.result, "UnauthorizedError",
                     "You do not have permission to access this asset")

\* a token of the right bucket whose key differs in case only is refused
C6_WitnessNoOverlap ==
    /\ IsAccess
    /\ \E asset \in AssetRows(last.assetId) :
          /\ asset.keys # None
          /\ Verified
          /\ VerifiedPayload.bucketId = asset.bucketId
          /\ VerifiedPayload.keys = <<KeyUpperA>>
          /\ Includes(TagKeys(asset), KeyA)
          /\ IsError(last.result, "UnauthorizedError",
               "You do not have permission to access this asset with the provided keys")

\* C7: for an asset whose keys field is null, accessorViaReadToken serves the
\* file whatever the request carries, and neither reads nor verifies a token.
C7_NullKeysServedWithoutToken ==
    IsAccess =>
        \A asset \in AssetRows(last.assetId) :
            asset.keys = None
              => /\ Served(last.result, asset)
                 /\ last.steps = <<"findAsset", "serve">>

\* served on a request without a cookie
C7_Witness ==
    /\ IsAccess
    /\ last.cookie = NoCookie
    /\ \E asset \in AssetRows(last.assetId) :
          asset.keys = None /\ Served(last.result, asset)

\* served on a request whose cookie is no token
C7_WitnessMalformed ==
    /\ IsAccess
    /\ last.cookie = Malformed
    /\ \E asset \in AssetRows(last.assetId) :
          asset.keys = None /\ Served(last.result, asset)

IsCreateAsset == last.op = "createAsset"
BucketRefused(result) ==
    IsError(result, "NotFoundError",
            "Bucket not found or you don't have permission to access it")

\* C8: createAsset called with keys null or omitted, on a bucket of the
\* caller, succeeds, stores keys = null, and the asset is then served by
\* accessorViaReadToken to a request without a token.
C8_NoKeysUnrestricted ==
    (IsCreateAsset /\ last.keys \in {Null, Undefined} /\ ~BucketRefused(last.result))
        => /\ last.result.ok
           /\ \E asset \in AssetRows(last.assetId) :
                 /\ asset.keys = None
                 /\ accessorViaReadToken(asset.id, NoCookie).result.ok

\* what the code does with keys = null: the call throws
C8_NullKeysThrow ==
    /\ IsCreateAsset
    /\ last.keys = Null
    /\ IsError(last.result, "TypeError", "keys is not iterable")

\* what the code does with keys omitted: the row holds "" and the gate stays shut
C8_OmittedKeysGated ==
    /\ IsCreateAsset
    /\ last.keys = Undefined
    /\ last.result.ok
    /\ last.result.value.keys = Some(<<>>)
    /\ \A c \in readTokens \cup CraftedReadTokens(ServeTokenKeys) \cup {NoCookie, Malformed} :
          ~accessorViaReadToken(last.assetId, c).result.ok

----------------------------------------------------------------------------
(* Storage: the write, the row, the compensation *)

Faults == {"none", "write", "writePartial", "persist"}

CreateAssetFaulty ==
    /\ Idle
    /\ \E b \in BucketIds, u \in Users, k \in {Array(<<KeyA>>), Undefined, Null},
          f \in Faults, d \in BOOLEAN :
          createAsset(b, u, k, f, d)
DeleteAssetFaulty ==
    /\ Idle
    /\ \E a \in AssetIds, u \in Users, b \in BucketIds, d \in BOOLEAN : deleteAsset(a, u, b, d)

NextStore ==
    \/ Respond
    \/ CreateBucketAny
    \/ DeleteBucketAny
    \/ CreateAssetFaulty
    \/ DeleteAssetFaulty

SpecStore == Init /\ [][NextStore]_vars

PersistFailed == IsCreateAsset /\ last.fault = "persist" /\ last.ref # <<>>

C10_FileIffRow ==
    (IsCreateAsset /\ last.ref # <<>>)
        => (last.ref \in files <=> AssetRows(last.assetId) # {})

\* C10, amended: a row always has its file; a file is without its row only
\* when the call failed after the file came to exist and the compensating
\* delete met an I/O error.
C10_FileIffRowUnlessDeleteFails ==
    (IsCreateAsset /\ last.ref # <<>>)
        => /\ AssetRows(last.assetId) # {} => last.ref \in files
           /\ (last.ref \in files /\ AssetRows(last.assetId) = {})
                => last.fault \in {"writePartial", "persist"} /\ last.deleteFails
           /\ ~last.deleteFails => (last.ref \in files <=> AssetRows(last.assetId) # {})

\* a write that failed half-way, compensated
C10_Witness ==
    /\ IsCreateAsset
    /\ last.fault = "writePartial"
    /\ ~last.deleteFails
    /\ last.ref # <<>>
    /\ last.ref \notin files
    /\ AssetRows(last.assetId) = {}

\* a created asset: file and row
C10_WitnessCreated ==
    /\ IsCreateAsset
    /\ last.result.ok
    /\ last.ref \in files
    /\ AssetRows(last.assetId) # {}

CreateFailed == IsCreateAsset /\ last.fault # "none" /\ last.ref # <<>>

----------------------------------------------------------------------------
(* Requests in parallel.  A handler runs from one await to the next        *)
(* without interruption; between two awaits any other request may run.     *)
(* A store operation (findFirst, create, delete) is one atomic step.       *)

\* part_005:88-89: await db.bucket.findFirst; the call goes on only for a
\* bucket of the caller
CreateAssetFind(bucketId, userId, keys) ==
    IF FindBuckets(bucketId, userId) = {}
    THEN /\ last' = [op |-> "createAssetCall", assetId |-> 0,
                     result |-> Err("NotFoundError",
                         "Bucket not found or you don't have permission to access it")]
         /\ UNCHANGED <<now, secrets, buckets, assets, files, nextSecretId, nextBucketId,
                        nextAssetId, readTokens, signedUrls, calls>>
    ELSE /\ nextAssetId <= MaxAssets
         /\ nextAssetId' = nextAssetId + 1
         /\ calls' = calls \cup
               {[op |-> "createAsset", pc |-> "write", assetId |-> nextAssetId,
                 bucketId |-> bucketId, userId |-> userId, keys |-> keys,
                 ref |-> generateStoragePath(userId, bucketId, keys, nextAssetId, Ext)]}
         /\ UNCHANGED <<now, secrets, buckets, assets, files, nextSecretId, nextBucketId,
                        readTokens, signedUrls, last>>

\* part_005:91-101: the path, writeFileSync, and db.asset.create is issued;
\* a write that throws goes to the catch block
CreateAssetWrite(c, fault, deleteFails) ==
    /\ c \in calls
    /\ c.op = "createAsset"
    /\ c.pc = "write"
    /\ IF fault = "none"
       THEN /\ files' = AfterWrite(files, c.ref, fault)
            /\ calls' = (calls \ {c}) \cup {[c EXCEPT !.pc = "persist"]}
            /\ UNCHANGED last
       ELSE /\ files' = Compensate(AfterWrite(files, c.ref, fault), c.ref, deleteFails)
            /\ calls' = calls \ {c}
            /\ last' = [op |-> "createAssetCall", assetId |-> c.assetId,
                        result |-> CaughtError(ThrownBy(fault), deleteFileThrown(deleteFails))]
    /\ UNCHANGED <<now, secrets, buckets, assets, nextSecretId, nextBucketId,
                   nextAssetId, readTokens, signedUrls>>

\* db.asset.create is issued before the file is written
CanPersistEarly(c) == c.pc \in {"write", "persist"}
\* part_005:99-101: db.asset.create follows writeFileSync
CanPersist(c) == c.pc = "persist"

\* part_005:101-110: the store creates the row, or refuses and the catch
\* block runs
CreateAssetPersist(c, fails, deleteFails) ==
    /\ c \in calls
    /\ c.op = "createAsset"
    /\ CanPersist(c)
    /\ IF ~fails
       THEN /\ assets' = assets \cup
                  {[id |-> c.assetId, keys |-> Some(Join(c.keys, "~")), ref |-> c.ref,
                    bucketId |-> c.bucketId]}
            /\ calls' = (calls \ {c}) \cup {[c EXCEPT !.pc = "return"]}
            /\ UNCHANGED <<files, last>>
       ELSE /\ files' = Compensate(files, c.ref, deleteFails)
            /\ calls' = calls \ {c}
            /\ last' = [op |-> "createAssetCall", assetId |-> c.assetId,
                        result |-> CaughtError(ThrownBy("persist"),
                                               deleteFileThrown(deleteFails))]
            /\ UNCHANGED assets
    /\ UNCHANGED <<now, secrets, buckets, nextSecretId, nextBucketId, nextAssetId,
                   readTokens, signedUrls>>

\* part_005:112: the caller gets the row
CreateAssetReturn(c) ==
    /\ c \in calls
    /\ c.op = "createAsset"
    /\ c.pc = "return"
    /\ calls' = calls \ {c}
    /\ last' = [op |-> "createAssetCall", assetId |-> c.assetId,
                result |-> Ok(c.ref)]
    /\ UNCHANGED <<now, secrets, buckets, assets, files, nextSecretId, nextBucketId,
                   nextAssetId, readTokens, signedUrls>>

CreateAssetFindAny ==
    /\ Idle
    /\ \E b \in BucketIds, u \in Users : CreateAssetFind(b, u, <<KeyA>>)
CreateAssetWriteAny ==
    /\ Idle
    /\ \E c \in calls, f \in {"none", "write", "writePartial"}, d \in BOOLEAN :
          CreateAssetWrite(c, f, d)
CreateAssetPersistAny ==
    /\ Idle
    /\ \E c \in calls, f \in BOOLEAN, d \in BOOLEAN : CreateAssetPersist(c, f, d)
CreateAssetReturnAny ==
    /\ Idle
    /\ \E c \in calls : CreateAssetReturn(c)

\* Serving while assets are being created
ServeAccessorAny ==
    /\ Idle
    /\ \E a \in AssetIds, c \in CraftedReadTokens({<<KeyA>>}) \cup {NoCookie} :
          AccessorViaReadTokenRequest(a, c)
ServeSignedUrlAny ==
    /\ Idle
    /\ \E t \in CraftedSignedUrls : VerifySignedUrlRequest(t)

NextConc ==
    \/ Respond
    \/ CreateSecretPlain
    \/ CreateBucketAny
    \/ CreateAssetFindAny
    \/ CreateAssetWriteAny
    \/ CreateAssetPersistAny
    \/ CreateAssetReturnAny
    \/ ServeAccessorAny
    \/ ServeSignedUrlAny

SpecConc == Init /\ [][NextConc]_vars

\* the asset row a serve request found
FoundByAccessor ==
    IF IsAccess /\ ~IsError(last.result, "NotFoundError", "Asset not found")
    THEN AssetRows(last.assetId) ELSE {}
FoundBySignedUrl == IF IsVerifyUrl /\ last.result.ok THEN {last.result.value} ELSE {}

\* C12: while assets are being created and served in parallel, every asset
\* row a request can find has its file completely written: in every state a
\* visible row implies the file is present, and so for the row an
\* accessorViaReadToken or verifySignedUrl request found.
C12_RowVisibleImpliesFile ==
    /\ \A a \in assets : a.ref \in files
    /\ \A a \in FoundByAccessor : a.ref \in files
    /\ \A a \in FoundBySignedUrl : a.ref \in files

\* a creation between its write and its row: the file is there, and a serve
\* request for the id is told there is no such asset
C12_Witness ==
    /\ IsAccess
    /\ IsError(last.result, "NotFoundError", "Asset not found")
    /\ \E c \in calls :
          /\ c.op = "createAsset"
          /\ c.pc = "persist"
          /\ c.assetId = last.assetId
          /\ c.ref \in files

\* a creation that has its row but has not returned yet: the asset is served
C12_WitnessServed ==
    /\ IsVerifyUrl
    /\ last.result.ok
    /\ \E c \in calls :
          /\ c.op = "createAsset"
          /\ c.pc = "return"
          /\ c.assetId = last.result.value.id
          /\ c.ref \in files

----------------------------------------------------------------------------
(* Buckets and assets in parallel *)

HoldsAsset(bucketId) == \E a \in assets : a.bucketId = bucketId

\* bucket.service.ts:144-157: await db.bucket.findFirst with its assets, and
\* the two refusals
DeleteBucketFind(id, userId) ==
    IF FindBuckets(id, userId) = {}
    THEN /\ last' = [op |-> "deleteBucketCall", bucketId |-> id, held |-> FALSE,
                     result |-> Err("NotFoundError", "Bucket not found")]
         /\ UNCHANGED <<now, secrets, buckets, assets, files, nextSecretId, nextBucketId,
                        nextAssetId, readTokens, signedUrls, calls>>
    ELSE IF HoldsAsset(id)
    THEN /\ last' = [op |-> "deleteBucketCall", bucketId |-> id, held |-> TRUE,
                     result |-> Err("UnauthorizedError",
                         "Cannot delete bucket with assets. Delete all assets first.")]
         /\ UNCHANGED <<now, secrets, buckets, assets, files, nextSecretId, nextBucketId,
                        nextAssetId, readTokens, signedUrls, calls>>
    ELSE /\ calls' = calls \cup {[op |-> "deleteBucket", pc |-> "delete", bucketId |-> id]}
         /\ UNCHANGED <<now, secrets, buckets, assets, files, nextSecretId, nextBucketId,
                        nextAssetId, readTokens, signedUrls, last>>

\* bucket.service.ts:158-163: await db.bucket.delete({ where: { id } }); a row
\* already gone makes the store throw
DeleteBucketDelete(c) ==
    /\ c \in calls
    /\ c.op = "deleteBucket"
    /\ calls' = calls \ {c}
    /\ buckets' = {b \in buckets : b.id # c.bucketId}
    /\ last' = [op |-> "deleteBucketCall", bucketId |-> c.bucketId,
                held |-> HoldsAsset(c.bucketId),
                result |-> IF \E b \in buckets : b.id = c.bucketId
                           THEN Ok(c.bucketId)
                           ELSE Err("PrismaClientKnownRequestError",
                                    "Record to delete does not exist")]
    /\ UNCHANGED <<now, secrets, assets, files, nextSecretId, nextBucketId,
                   nextAssetId, readTokens, signedUrls>>

\* requests in flight are told apart by a tag, so that two deletions of the
\* same asset by the same caller are two calls
MaxCalls == 2
FreeTags == {n \in 1..MaxCalls : \A d \in calls : "req" \in DOMAIN d => d.req # n}

\* part_005:204-209: await db.asset.findFirst in the caller's bucket
DeleteAssetFind(id, userId, bucketId) ==
    LET found == {a \in FindAssetsInBucket(id, bucketId) : FindBuckets(bucketId, userId) # {}}
    IN  IF found = {}
        THEN /\ last' = [op |-> "deleteAssetCall", assetId |-> id,
                         result |-> Err("NotFoundError",
                             "Asset not found or you don't have permission to access it")]
             /\ UNCHANGED <<now, secrets, buckets, assets, files, nextSecretId,
                            nextBucketId, nextAssetId, readTokens, signedUrls, calls>>
        ELSE /\ FreeTags # {}
             /\ calls' = calls \cup
                   {[op |-> "deleteAsset", pc |-> "deleteFile", assetId |-> id,
                     ref |-> Get(found).ref, req |-> CHOOSE n \in FreeTags : TRUE]}
             /\ UNCHANGED <<now, secrets, buckets, assets, files, nextSecretId,
                            nextBucketId, nextAssetId, readTokens, signedUrls, last>>

\* the file left where it is
DeleteAssetFileSkipped(c, deleteFails) ==
    /\ c \in calls
    /\ c.op = "deleteAsset"
    /\ c.pc = "deleteFile"
    /\ calls' = (calls \ {c}) \cup {[c EXCEPT !.pc = "deleteRow"]}
    /\ UNCHANGED <<now, secrets, buckets, assets, files, nextSecretId, nextBucketId,
                   nextAssetId, readTokens, signedUrls, last>>
\* part_005:211-214: deleteFile, and db.asset.delete is issued
DeleteAssetFile(c, deleteFails) ==
    /\ c \in calls
    /\ c.op = "deleteAsset"
    /\ c.pc = "deleteFile"
    /\ files' = deleteFile(files, c.ref, deleteFails)
    /\ calls' = (calls \ {c}) \cup {[c EXCEPT !.pc = "deleteRow"]}
    /\ UNCHANGED <<now, secrets, buckets, assets, nextSecretId, nextBucketId,
                   nextAssetId, readTokens, signedUrls, last>>

\* part_005:214-215: the store deletes the row; a row already gone makes it throw
DeleteAssetRow(c) ==
    /\ c \in calls
    /\ c.op = "deleteAsset"
    /\ c.pc = "deleteRow"
    /\ calls' = calls \ {c}
    /\ assets' = {a \in assets : a.id # c.assetId}
    /\ last' = [op |-> "deleteAssetCall", assetId |-> c.assetId, ref |-> c.ref,
                result |-> IF FindAssetsById(c.assetId) # {}
                           THEN Ok(c.assetId)
                           ELSE Err("PrismaClientKnownRequestError",
                                    "Record to delete does not exist")]
    /\ UNCHANGED <<now, secrets, buckets, files, nextSecretId, nextBucketId,
                   nextAssetId, readTokens, signedUrls>>

DeleteBucketFindAny ==
    /\ Idle
    /\ \E id \in BucketIds, u \in Users : DeleteBucketFind(id, u)
DeleteBucketDeleteAny ==
    /\ Idle
    /\ \E c \in calls : DeleteBucketDelete(c)
DeleteAssetFindAny ==
    /\ Idle
    /\ \E a \in AssetIds, u \in Users, b \in BucketIds : DeleteAssetFind(a, u, b)
DeleteAssetFileAny ==
    /\ Idle
    /\ \E c \in calls, d \in BOOLEAN : DeleteAssetFile(c, d)
DeleteAssetRowAny ==
    /\ Idle
    /\ \E c \in calls : DeleteAssetRow(c)

NextBucket ==
    \/ Respond
    \/ CreateBucketAny
    \/ CreateAssetFindAny
    \/ CreateAssetWriteAny
    \/ CreateAssetPersistAny
    \/ CreateAssetReturnAny
    \/ DeleteAssetFindAny
    \/ DeleteAssetFileAny
    \/ DeleteAssetRowAny
    \/ DeleteBucketFindAny
    \/ DeleteBucketDeleteAny

SpecBucket == Init /\ [][NextBucket]_vars

\* C13: under every interleaving of createAsset, deleteAsset and deleteBucket
\* requests, deleteBucket on a bucket that holds an asset fails and leaves
\* the bucket in place, and no Asset row references a bucket that no longer
\* exists.
C13_NoAssetWithoutBucket ==
    /\ \A a \in assets : \E b \in buckets : b.id = a.bucketId
    /\ (last.op = "deleteBucketCall" /\ last.held)
         => /\ ~last.result.ok
            /\ \E b \in buckets : b.id = last.bucketId

\* the same of requests that run one after the other
SequentialNoAssetWithoutBucket == \A a \in assets : \E b \in buckets : b.id = a.bucketId

\* a bucket deleted while it held an asset
C13_DeletedWhileHolding == last.op = "deleteBucketCall" /\ last.held /\ last.result.ok

\* an asset row created into a bucket that was deleted meanwhile
C13_CreatedIntoDeleted ==
    /\ last.op = "createAssetCall"
    /\ last.result.ok
    /\ \E a \in AssetRows(last.assetId) : ~\E b \in buckets : b.id = a.bucketId

----------------------------------------------------------------------------
(* Issuance *)

IsGenerateRead == last.op = "generateReadToken"
\* the Secret rows a raw secret value resolves to
RowsOfValue(value) == {s \in secrets : s.secret = encrypt(Str(value), Omitted)}
Live(s) == ~PastExpiry(s)
IssuedReadClaim == EncryptedSecretSchemaSafeParse(last.result.value.payload).value

\* C14: generateReadToken returns a token for bucketId only when that bucket
\* is owned by the owner of the secret the presented value resolved to, and
\* the token names that secret, that owner and that bucket; when no secret of
\* that value has an owner who owns the bucket (the bucket is missing, or is
\* someone else's) the call returns no token, and the failure is a
\* NotFoundError whenever the value resolves to no expired secret.
C14_ReadTokenOnlyForOwnedBucket ==
    IsGenerateRead =>
        /\ last.result.ok
             => /\ IssuedReadClaim.bucketId = last.bucketId
                /\ Owns(IssuedReadClaim.userId, last.bucketId)
                /\ \E s \in RowsOfValue(last.secret) :
                      s.id = IssuedReadClaim.secretId /\ s.userId = IssuedReadClaim.userId
        /\ (\A s \in RowsOfValue(last.secret) : ~Owns(s.userId, last.bucketId))
             => /\ ~last.result.ok
                /\ (\A s \in RowsOfValue(last.secret) : Live(s))
                     => last.result.type = "NotFoundError"

\* a live secret presented for a bucket that exists and belongs to another user
C14_Witness ==
    /\ IsGenerateRead
    /\ RowsOfValue(last.secret) # {}
    /\ \A s \in RowsOfValue(last.secret) : Live(s) /\ ~Owns(s.userId, last.bucketId)
    /\ \E b \in buckets : b.id = last.bucketId
    /\ IsError(last.result, "NotFoundError", "Bucket not found")

\* a token issued
C14_WitnessIssued == IsGenerateRead /\ last.result.ok

IsGenerateUrl == last.op = "generateSignedUrl"
IssuedUrlClaim == EncryptedSignedUrlSchemaSafeParse(last.result.value.payload).value
InBucket(assetId, bucketId) == \E a \in assets : a.id = assetId /\ a.bucketId = bucketId
\* a secret of the presented value that may issue a URL for the asset
MayIssueUrl(s) ==
    /\ Live(s)
    /\ Owns(s.userId, last.bucketId)
    /\ InBucket(last.assetId, last.bucketId)

\* C15: generateSignedUrl returns a signed URL only when the presented value
\* resolves to an existing, unexpired secret whose owner owns the specified
\* bucket and the asset exists inside that bucket, and the URL names that
\* asset and that secret; otherwise it returns no token and fails with
\* NotFoundError or with UnauthorizedError "Secret has expired".
C15_SignedUrlOnlyForOwnedAsset ==
    IsGenerateUrl =>
        /\ last.result.ok
             => /\ IssuedUrlClaim.assetId = last.assetId
                /\ \E s \in RowsOfValue(last.secret) :
                      s.id = IssuedUrlClaim.secretId /\ MayIssueUrl(s)
        /\ (\A s \in RowsOfValue(last.secret) : ~MayIssueUrl(s))
             => /\ ~last.result.ok
                /\ \/ last.result.type = "NotFoundError"
                   \/ IsError(last.result, "UnauthorizedError", "Secret has expired")

\* refused for an asset that exists, but in a bucket other than the one
\* specified, which the secret's owner owns
C15_Witness ==
    /\ IsGenerateUrl
    /\ \E s \in RowsOfValue(last.secret) : Live(s) /\ Owns(s.userId, last.bucketId)
    /\ AssetRows(last.assetId) # {}
    /\ ~InBucket(last.assetId, last.bucketId)
    /\ IsError(last.result, "NotFoundError", "Asset not found in the specified bucket")

\* refused for an expired secret
C15_WitnessExpired ==
    /\ IsGenerateUrl
    /\ \E s \in RowsOfValue(last.secret) : PastExpiry(s)
    /\ IsError(last.result, "UnauthorizedError", "Secret has expired")

C15_WitnessIssued == IsGenerateUrl /\ last.result.ok

\* C16: after any sequence of createSecret and deleteSecret operations at
\* most one Secret row holds a given encrypted value, so that a raw secret
\* string resolves by value to one secret and one owner.
C16_EncryptedValueUnique ==
    /\ \A s1 \in secrets, s2 \in secrets : s1.secret = s2.secret => s1 = s2
    /\ \A v \in SecretValues : Cardinality(verifySecretResults(v)) = 1

\* one raw value that verifySecret resolves to secrets of two owners
C16_TwoOwnersResolve ==
    \E v \in SecretValues :
        \E r1 \in verifySecretResults(v), r2 \in verifySecretResults(v) :
            r1.ok /\ r2.ok /\ r1.value.userId # r2.value.userId

----------------------------------------------------------------------------
(* Failure reporting of the verifiers *)

LastStep(steps) == steps[Len(steps)]
\* the call failed at the decode, at the parse of the claim, or at the signature
FailedAuthentication == ~last.result.ok /\ LastStep(last.steps) \in {"decode", "parse", "verify"}

\* C17: in verifyReadToken a token that cannot be decoded, a claim that
\* cannot be decrypted, is not JSON or has the wrong shape, and a signature
\* mismatch are all reported as UnauthorizedError "Invalid read token"; no
\* other error type comes out.
C17_ReadTokenFailuresUniform ==
    (IsVerifyRead /\ FailedAuthentication)
        => last.result = Err("UnauthorizedError", "Invalid read token")

\* a claim that does not decrypt to JSON: the SyntaxError of JSON.parse comes out
C17_SyntaxErrorEscapes ==
    /\ IsVerifyRead
    /\ IsJwt(last.token)
    /\ ~IsJson(decrypt(last.token.payload, MASTER_SECRET_KEY))
    /\ last.result.type = "SyntaxError"

\* the failures of verifyReadToken other than that one are reported alike
ReadTokenFailuresUniformButSyntax ==
    (IsVerifyRead /\ FailedAuthentication /\ last.result.type # "SyntaxError")
        => last.result = Err("UnauthorizedError", "Invalid read token")

\* C18: in verifySignedUrl a malformed token, an undecryptable or wrongly
\* shaped payload and a signature mismatch are reported identically: the
\* error type and the message are those a malformed token gets.
C18_SignedUrlFailuresUniform ==
    (IsVerifyUrl /\ FailedAuthentication)
        => last.result = verifySignedUrl(Malformed).result

\* a signature mismatch told apart from a malformed token by its message
C18_SignatureFailureDistinct ==
    /\ IsVerifyUrl
    /\ LastStep(last.steps) = "verify"
    /\ last.result = Err("UnauthorizedError", "Invalid signed URL signature")
    /\ verifySignedUrl(Malformed).result = Err("UnauthorizedError", "Invalid or expired signed URL")

\* a payload that does not decrypt to JSON: neither the type nor the message of
\* a malformed token
C18_UrlSyntaxErrorEscapes ==
    /\ IsVerifyUrl
    /\ LastStep(last.steps) = "parse"
    /\ last.result.type = "SyntaxError"

----------------------------------------------------------------------------
(* Both verifiers over a long clock: issue, let time pass, verify *)

MinuteMs == SecondsPerMinute * MsPerSecond
\* the instants the clock is read at after the start: a secret's expiry, which is
\* also the end of a read token issued under it, and the end of the shortest
\* signed-URL window
Instants == {StepMs, MinuteMs}

Elapse ==
    /\ Idle
    /\ \E t \in Instants : t > now /\ now' = t
    /\ UNCHANGED last
    /\ UNCHANGED <<secrets, buckets, assets, files, nextSecretId, nextBucketId,
                   nextAssetId, readTokens, signedUrls, calls>>

NextVerify ==
    \/ Respond
    \/ Elapse
    \/ CreateSecretOwn
    \/ CreateBucketAny
    \/ CreateAssetKeyed
    \/ GenerateReadTokenA
    \/ GenerateSignedUrlAny
    \/ VerifyReadTokenA
    \/ VerifySignedUrlAny

SpecVerify == Init /\ [][NextVerify]_vars

\* a step in which a verifier is called and returns
VerifyStep == Idle /\ last'.op \in {"verifyReadToken", "verifySignedUrl"}

\* C19: a call of verifyReadToken or verifySignedUrl, successful or failed at
\* any stage, leaves the rows, the stored files and the issued tokens as they
\* were and records nothing.
C19_VerifiersChangeNothing ==
    [][VerifyStep => UNCHANGED <<secrets, buckets, assets, files, readTokens, signedUrls,
                                 nextSecretId, nextBucketId, nextAssetId, calls>>]_vars

\* a read token verified while rows, a file and both kinds of token exist
C19_Witness ==
    /\ IsVerifyRead
    /\ last.result.ok
    /\ files # {}
    /\ assets # {}
    /\ readTokens # {}
    /\ signedUrls # {}

C19_UrlVerified == IsVerifyUrl /\ last.result.ok /\ files # {} /\ readTokens # {}
\* every stage a verifier can fail at is reached
C19_ReadFailedAt(stage) == IsVerifyRead /\ ~last.result.ok /\ LastStep(last.steps) = stage
C19_UrlFailedAt(stage) == IsVerifyUrl /\ ~last.result.ok /\ LastStep(last.steps) = stage

\* the secret a verified token names is there and the clock is not past its expiry
SecretInForce(secretId) == \E s \in SecretRows(secretId) : ~PastExpiry(s)

\* C20: a read token or a signed URL verifies at the current instant only if
\* the instant is before the expiry signed into the token and the secret it
\* names has no expiry or one the clock has not passed: the earlier of the two
\* ends it.
C20_StricterExpiryWins ==
    /\ (IsVerifyRead /\ last.result.ok)
         => /\ TokenUnexpired(last.token)
            /\ SecretInForce(ReadClaim(last.token).secretId)
    /\ (IsVerifyUrl /\ last.result.ok)
         => /\ UrlWindowOpen(last.token)
            /\ SecretInForce(UrlClaim(last.token).secretId)

\* an issued signed URL verified at the very instant its secret expires: the
\* last instant at which it verifies
C20_Witness ==
    /\ IsVerifyUrl
    /\ last.issued
    /\ last.result.ok
    /\ now = StepMs
    /\ \E s \in SecretRows(UrlClaim(last.token).secretId) : s.expiresAt = Some(now)

\* a signed URL whose window reaches beyond its secret's expiry, presented
\* after the secret expired
C20_UrlStopsWithSecret ==
    /\ IsVerifyUrl
    /\ last.issued
    /\ now = MinuteMs
    /\ UrlWindowOpen(last.token)
    /\ \E s \in SecretRows(UrlClaim(last.token).secretId) : PastExpiry(s)
    /\ ~last.result.ok

\* a signed URL whose window closed while its secret, which never expires, stands
C20_UrlStopsWithWindow ==
    /\ IsVerifyUrl
    /\ last.issued
    /\ ~UrlWindowOpen(last.token)
    /\ \E s \in SecretRows(UrlClaim(last.token).secretId) : s.expiresAt = None
    /\ IsError(last.result, "UnauthorizedError", "Invalid signed URL signature")

\* a read token past its signed expiry while its secret is not yet past its own
C20_ReadStopsWithToken ==
    /\ IsVerifyRead
    /\ last.issued
    /\ ~TokenUnexpired(last.token)
    /\ SecretInForce(ReadClaim(last.token).secretId)
    /\ IsError(last.result, "UnauthorizedError", "Invalid read token")

\* a read token verified
C20_ReadVerifies == IsVerifyRead /\ last.issued /\ last.result.ok /\ now = 0

----------------------------------------------------------------------------
(* The lifetime a read token is signed with *)

\* whole seconds left to the expiry of a secret, thirty days for one without
RemainingSeconds(s) ==
    IF s.expiresAt = None THEN ThirtyDays ELSE (Get(s.expiresAt) - now) \div MsPerSecond

\* C21: a read token returned by generateReadToken expires a positive number
\* of seconds after its issue: the whole seconds left to the secret's expiry,
\* or thirty days for a secret without one; when every secret the value
\* resolves to passes the expiry check and owns the bucket but has less than a
\* second left, the call fails with an ExpiredError and no token is issued.
C21_ReadTokenTtlPositive ==
    IsGenerateRead =>
        /\ last.result.ok
             => \E s \in RowsOfValue(last.secret) :
                   /\ s.id = IssuedReadClaim.secretId
                   /\ RemainingSeconds(s) > 0
                   /\ last.result.value.exp = (now \div MsPerSecond) + RemainingSeconds(s)
        /\ (/\ RowsOfValue(last.secret) # {}
            /\ \A s \in RowsOfValue(last.secret) :
                  Live(s) /\ Owns(s.userId, last.bucketId) /\ RemainingSeconds(s) <= 0)
             => /\ ~last.result.ok
                /\ last.result.type = "ExpiredError"

\* a secret at the very instant of its expiry: not expired, no second left
C21_Witness ==
    /\ IsGenerateRead
    /\ RowsOfValue(last.secret) # {}
    /\ \A s \in RowsOfValue(last.secret) :
          Live(s) /\ Owns(s.userId, last.bucketId) /\ s.expiresAt = Some(now)
    /\ last.result.type = "ExpiredError"

\* a token of one second, and one of thirty days
C21_IssuedOneSecond ==
    IsGenerateRead /\ last.result.ok /\ last.result.value.exp = (now \div MsPerSecond) + 1
C21_IssuedThirtyDays ==
    IsGenerateRead /\ last.result.ok /\ last.result.value.exp = (now \div MsPerSecond) + ThirtyDays

----------------------------------------------------------------------------
(* Storage paths: generateStoragePath applied to chosen arguments *)

\* tag keys as the controllers hand them over: the pieces of the request's
\* keys field between "~", trimmed, of any other content
TagKeyChoices == {<<"a">>, <<"b">>, <<"a", "/", "b">>, DotDot, <<".", ".", "/", "b">>}
MaxTagKeys == 2
TagKeyLists == UNION {[1..n -> TagKeyChoices] : n \in 0..MaxTagKeys}
ExtChoices == {<<>>, Ext}

GenerateStoragePathRequest(userId, bucketId, keys, assetId, ext) ==
    /\ last' = [op |-> "generateStoragePath", userId |-> userId, bucketId |-> bucketId,
                keys |-> keys, assetId |-> assetId, ext |-> ext,
                result |-> generateStoragePath(userId, bucketId, keys, assetId, ext)]
    /\ UNCHANGED <<now, secrets, buckets, assets, files, nextSecretId, nextBucketId,
                   nextAssetId, readTokens, signedUrls, calls>>

GenerateStoragePathAny ==
    /\ Idle
    /\ \E u \in Users, b \in BucketIds, keys \in TagKeyLists, a \in AssetIds, e \in ExtChoices :
          GenerateStoragePathRequest(u, b, keys, a, e)

NextPath ==
    \/ Respond
    \/ GenerateStoragePathAny

SpecPath == Init /\ [][NextPath]_vars

IsStoragePath == last.op = "generateStoragePath"
\* userId + "/" + bucketId + "/"
Directory(userId, bucketId) == <<userId, "/", ToString(bucketId), "/">>
\* the tag keys followed by the asset id, with "~" between them, then ext
FileName(keys, assetId, ext) == Join(Append(keys, <<ToString(assetId)>>), "~") \o ext
StartsWith(str, prefix) ==
    Len(str) >= Len(prefix) /\ SubSeq(str, 1, Len(prefix)) = prefix
\* a path below the directory: it starts with it and no ".." follows
Inside(path, dir) ==
    /\ StartsWith(path, dir)
    /\ Len(path) > Len(dir)
    /\ \A seg \in {Split(path, "/")[i] : i \in 1..Len(Split(path, "/"))} : seg # DotDot

\* C22: for all arguments generateStoragePath returns userId + "/" + bucketId
\* + "/" + the tag keys and the asset id joined with "~" + ext, a path inside
\* the directory userId/bucketId.
C22_StoragePathInsideDirectory ==
    IsStoragePath
        => /\ last.result = Directory(last.userId, last.bucketId)
                              \o FileName(last.keys, last.assetId, last.ext)
           /\ Inside(last.result, Directory(last.userId, last.bucketId))

\* a tag key of ".." segments takes the path out of the bucket's directory
C22_PathEscapes ==
    /\ IsStoragePath
    /\ last.keys = <<<<".", ".", "/", "b">>>>
    /\ last.result = <<last.userId, "/", "b", "~", ToString(last.assetId)>> \o last.ext
    /\ ~Inside(last.result, Directory(last.userId, last.bucketId))

\* for tag keys without "/" the path is the concatenation and lies inside
NoSlash(keys) == \A i \in 1..Len(keys) : ~Includes(keys[i], "/")
StoragePathOfPlainKeys ==
    (IsStoragePath /\ NoSlash(last.keys))
        => /\ last.result = Directory(last.userId, last.bucketId)
                              \o FileName(last.keys, last.assetId, last.ext)
           /\ StartsWith(last.result, Directory(last.userId, last.bucketId))

\* ("u1", 1, ["a"], 1, ".png") gives "u1/1/a~1.png"
StoragePathExample ==
    /\ IsStoragePath
    /\ last.userId = "u1" /\ last.bucketId = 1 /\ last.keys = <<KeyA>> /\ last.assetId = 1
    /\ last.ext = Ext
    /\ last.result = <<"u1", "/", "1", "/", "a", "~", "1", ".png">>

----------------------------------------------------------------------------
(* Cipher: encrypt and decrypt applied to chosen texts and keys *)

\* a text with a lone surrogate, as JSON.parse gives for "\ud800"
LoneSurrogate == [raw |-> "\\uD800", lone |-> TRUE]
Plaintexts ==
    {Str(v) : v \in SecretValues}
        \cup {JSONstringify(SignedUrlPayload(a, 1)) : a \in AssetIds}
        \cup {JSONstringify([secretId |-> 1]), Str(""), LoneSurrogate}
KeyMaterials == {Omitted, MASTER_SECRET_KEY} \cup SecretValues

RoundTripRequest(raw, encryptKey, decryptKey) ==
    /\ last' = [op |-> "roundTrip", raw |-> raw, encryptKey |-> encryptKey,
                decryptKey |-> decryptKey,
                ciphertext |-> encrypt(raw, encryptKey),
                result |-> decrypt(encrypt(raw, encryptKey), decryptKey)]
    /\ UNCHANGED <<now, secrets, buckets, assets, files, nextSecretId, nextBucketId,
                   nextAssetId, readTokens, signedUrls, calls>>

RoundTripAny ==
    /\ Idle
    /\ \E raw \in Plaintexts, k1 \in KeyMaterials, k2 \in KeyMaterials :
          RoundTripRequest(raw, k1, k2)

NextCipher ==
    \/ Respond
    \/ RoundTripAny

SpecCipher == Init /\ [][NextCipher]_vars

IsRoundTrip == last.op = "roundTrip"
\* the same key material on both sides, the master key passed or left out
SameKeyMaterial(k1, k2) ==
    \/ k1 = k2
    \/ {k1, k2} = {Omitted, MASTER_SECRET_KEY}

C23_OwnKey ==
    /\ IsRoundTrip
    /\ last.encryptKey \in SecretValues
    /\ last.decryptKey = last.encryptKey
    /\ last.result = last.raw

\* a lone surrogate comes back as U+FFFD
C23_LoneSurrogateLost ==
    /\ IsRoundTrip
    /\ last.encryptKey = last.decryptKey
    /\ last.raw = LoneSurrogate
    /\ last.result = ReplacementText

----------------------------------------------------------------------------
(* Lookup of a secret by its raw value *)

\* the row holds the encryption of the raw value v
CreatedFrom(s, v) == s.secret.pt = Utf8Bytes(Str(v)) /\ s.secret.key = ENCRYPTION_KEY

C24_NotFoundWithoutRow ==
    /\ IsGenerateRead
    /\ secrets # {}
    /\ ~\E s \in secrets : CreatedFrom(s, last.secret)
    /\ IsError(last.result, "NotFoundError", "Secret not found")

----------------------------------------------------------------------------
(* Expiry check before the secret's value is used as a key *)

\* the call got as far as signing: a token came out, or sign refused the ttl
ReachedSign == last.result.ok \/ last.result.type = "ExpiredError"
\* the call got as far as the signature check
ReachedVerify == Includes(last.steps, "verify")
\* the raw value of a stored secret
RawValue(s) == Utf8Text(s.secret.pt)

\* C25: in generateReadToken, generateSignedUrl, verifyReadToken and
\* verifySignedUrl the stored value of a secret is decrypted and used as the
\* signing or verification key only when the clock is not past the secret's
\* expiry: a call that reaches the signing or the signature check has
\* resolved a secret that is in force, and the key of an issued token is the
\* value of such a secret.
C25_ExpiryBeforeKeyUse ==
    /\ ((IsGenerateRead \/ IsGenerateUrl) /\ ReachedSign)
         => \E s \in RowsOfValue(last.secret) :
               /\ Live(s)
               /\ last.result.ok => last.result.value.sig.key = RawValue(s)
    /\ (IsVerifyRead /\ ReachedVerify)
         => \E s \in SecretRows(ReadClaim(last.token).secretId) : Live(s)
    /\ (IsVerifyUrl /\ ReachedVerify)
         => \E s \in SecretRows(UrlClaim(last.token).secretId) : Live(s)

\* a correctly signed read token presented after its secret expired: the
\* signature check is not reached
C25_Witness ==
    /\ IsVerifyRead
    /\ last.issued
    /\ \E s \in SecretRows(ReadClaim(last.token).secretId) :
          PastExpiry(s) /\ last.token.sig.key = RawValue(s)
    /\ ~ReachedVerify
    /\ LastStep(last.steps) = "expiry"

\* the same for a signed URL, and for the two issuing calls
C25_UrlNotChecked ==
    /\ IsVerifyUrl
    /\ last.issued
    /\ \E s \in SecretRows(UrlClaim(last.token).secretId) :
          PastExpiry(s) /\ last.token.sig.key = RawValue(s)
    /\ ~ReachedVerify
C25_ReadNotSigned ==
    /\ IsGenerateRead
    /\ RowsOfValue(last.secret) # {}
    /\ \A s \in RowsOfValue(last.secret) : PastExpiry(s) /\ Owns(s.userId, last.bucketId)
    /\ ~ReachedSign
C25_UrlNotSigned ==
    /\ IsGenerateUrl
    /\ RowsOfValue(last.secret) # {}
    /\ \A s \in RowsOfValue(last.secret) : PastExpiry(s) /\ Owns(s.userId, last.bucketId)
    /\ \E a \in assets : a.id = last.assetId /\ a.bucketId = last.bucketId
    /\ ~ReachedSign
\* calls that reach the key
C25_Signed == IsGenerateUrl /\ last.result.ok /\ \E s \in secrets : s.expiresAt # None
C25_Checked == IsVerifyRead /\ ReachedVerify /\ now > 0

----------------------------------------------------------------------------
(* Issue, then verify *)

\* what verifyReadToken answers, in this state, for the token just issued
VerifiedNow == verifyReadToken(last.result.value).result

\* C26: verifyReadToken applied to the token generateReadToken has just
\* returned succeeds, and the payload it returns names the secret the value
\* resolved to, that secret's owner, the bucket and the keys of the request
\* and the permission "read"; presented later, while the token is unexpired,
\* the secret in force and the bucket still its owner's, the token verifies
\* with the same payload.
C26_IssueThenVerify ==
    /\ (IsGenerateRead /\ last.result.ok)
         => /\ VerifiedNow.ok
            /\ \E s \in RowsOfValue(last.secret) :
                  /\ Live(s)
                  /\ VerifiedNow.value.secretId = s.id
                  /\ VerifiedNow.value.userId = s.userId
            /\ VerifiedNow.value.bucketId = last.bucketId
            /\ VerifiedNow.value.keys = last.keys
            /\ VerifiedNow.value.permission = "read"
    /\ (/\ IsVerifyRead
        /\ last.issued
        /\ TokenUnexpired(last.token)
        /\ \E s \in SecretRows(ReadClaim(last.token).secretId) :
              /\ s.userId = ReadClaim(last.token).userId
              /\ Live(s)
              /\ Owns(s.userId, ReadClaim(last.token).bucketId))
         => /\ last.result.ok
            /\ last.result.value = ReadClaim(last.token)
            /\ last.result.value.permission = "read"

\* a token issued that verifies on the spot
C26_Witness ==
    /\ IsGenerateRead
    /\ last.result.ok
    /\ VerifiedNow.ok
    /\ VerifiedNow.value.keys = <<KeyA>>

\* an issued token presented after the clock moved on, and verified
C26_VerifiedLater == IsVerifyRead /\ last.issued /\ last.result.ok /\ now > 0

----------------------------------------------------------------------------
(* Deletion of an asset, await by await, by the service and by the serve *)
(* controller                                                            *)

\* lib/multer hasFile: the file is there
hasFile(present, path) == path \in present

\* part_000:70-74: await db.asset.findFirst among the assets of the secret's
\* user, in the bucket of the request body when it names one
ServeDeleteFind(assetId, userId, bucketId) ==
    LET found == {a \in FindAssetsById(assetId) :
                     /\ FindBuckets(a.bucketId, userId) # {}
                     /\ bucketId # None => a.bucketId = Get(bucketId)}
    IN  IF found = {}
        THEN /\ last' = [op |-> "serveDeleteAssetCall", assetId |-> assetId,
                         result |-> Err("NotFoundError", "Asset not found")]
             /\ UNCHANGED <<now, secrets, buckets, assets, files, nextSecretId,
                            nextBucketId, nextAssetId, readTokens, signedUrls, calls>>
        ELSE /\ FreeTags # {}
             /\ calls' = calls \cup
                   {[op |-> "serveDeleteAsset", pc |-> "deleteFile", assetId |-> assetId,
                     ref |-> Get(found).ref, req |-> CHOOSE n \in FreeTags : TRUE]}
             /\ UNCHANGED <<now, secrets, buckets, assets, files, nextSecretId,
                            nextBucketId, nextAssetId, readTokens, signedUrls, last>>

\* part_000:75-78: if (hasFile) deleteFile, and db.asset.delete is issued
ServeDeleteFile(c, deleteFails) ==
    /\ c \in calls
    /\ c.op = "serveDeleteAsset"
    /\ c.pc = "deleteFile"
    /\ files' = IF hasFile(files, c.ref) THEN deleteFile(files, c.ref, deleteFails) ELSE files
    /\ calls' = (calls \ {c}) \cup {[c EXCEPT !.pc = "deleteRow"]}
    /\ UNCHANGED <<now, secrets, buckets, assets, nextSecretId, nextBucketId,
                   nextAssetId, readTokens, signedUrls, last>>

\* part_000:78-79: the store deletes the row; a row already gone makes it throw
ServeDeleteRow(c) ==
    /\ c \in calls
    /\ c.op = "serveDeleteAsset"
    /\ c.pc = "deleteRow"
    /\ calls' = calls \ {c}
    /\ assets' = {a \in assets : a.id # c.assetId}
    /\ last' = [op |-> "serveDeleteAssetCall", assetId |-> c.assetId, ref |-> c.ref,
                result |-> IF FindAssetsById(c.assetId) # {}
                           THEN Ok(c.assetId)
                           ELSE Err("PrismaClientKnownRequestError",
                                    "Record to delete does not exist")]
    /\ UNCHANGED <<now, secrets, buckets, files, nextSecretId, nextBucketId,
                   nextAssetId, readTokens, signedUrls>>

\* deleteFile meets no I/O error
DeleteAssetFileOk ==
    /\ Idle
    /\ \E c \in calls : DeleteAssetFile(c, FALSE)
ServeDeleteFindAny ==
    /\ Idle
    /\ \E a \in AssetIds, u \in Users, b \in {None} \cup {Some(id) : id \in BucketIds} :
          ServeDeleteFind(a, u, b)
ServeDeleteFileOk ==
    /\ Idle
    /\ \E c \in calls : ServeDeleteFile(c, FALSE)
ServeDeleteRowAny ==
    /\ Idle
    /\ \E c \in calls : ServeDeleteRow(c)

\* assets with their file (createAsset) and without one (a metadata-only row)
NextDelete ==
    \/ Respond
    \/ CreateBucketAny
    \/ CreateAssetKeyed
    \/ CreateAssetRecordAny
    \/ DeleteAssetFindAny
    \/ DeleteAssetFileOk
    \/ DeleteAssetRowAny
    \/ ServeDeleteFindAny
    \/ ServeDeleteFileOk
    \/ ServeDeleteRowAny

SpecDelete == Init /\ [][NextDelete]_vars

Deletions == {c \in calls : c.op \in {"deleteAsset", "serveDeleteAsset"}}
\* a deletion that found its asset has returned
DeletionReturned ==
    last.op \in {"deleteAssetCall", "serveDeleteAssetCall"} /\ "ref" \in DOMAIN last

C27_SecondOfTwo ==
    /\ DeletionReturned
    /\ ~last.result.ok
    /\ \A c \in Deletions : c.assetId # last.assetId
    /\ AssetRows(last.assetId) = {}
    /\ last.ref \notin files

\* two deletions of one asset in flight, the file still there
C27_TwoInFlight ==
    \E c, d \in Deletions :
        /\ c # d
        /\ c.assetId = d.assetId
        /\ c.op # d.op
        /\ c.ref \in files

\* an asset with its file deleted with success
C27_DeletedWithFile ==
    /\ DeletionReturned
    /\ last.result.ok
    /\ last.ref[Len(last.ref)] = ".png"
    /\ ~\E i \in 1..Len(last.ref) : last.ref[i] = "legacy"

----------------------------------------------------------------------------
(* Bucket names: createBucket and updateBucket, await by await *)

NameChoices == {"n1", "n2"}
NameExists == Err("UnauthorizedError", "Bucket with this name already exists")

\* bucket.service.ts:71-75: await db.bucket.findFirst({ where: { name, userId } })
CreateBucketFind(name, userId) ==
    IF FindBucketsByName(name, userId) # {}
    THEN /\ last' = [op |-> "createBucketCall", name |-> name, userId |-> userId,
                     result |-> NameExists]
         /\ UNCHANGED <<now, secrets, buckets, assets, files, nextSecretId,
                        nextBucketId, nextAssetId, readTokens, signedUrls, calls>>
    ELSE /\ FreeTags # {}
         /\ calls' = calls \cup
               {[op |-> "createBucket", pc |-> "create", name |-> name, userId |-> userId,
                 req |-> CHOOSE n \in FreeTags : TRUE]}
         /\ UNCHANGED <<now, secrets, buckets, assets, files, nextSecretId,
                        nextBucketId, nextAssetId, readTokens, signedUrls, last>>

\* bucket.service.ts:77-85: await db.bucket.create
CreateBucketCreate(c) ==
    /\ c \in calls
    /\ c.op = "createBucket"
    /\ nextBucketId <= MaxBuckets
    /\ calls' = calls \ {c}
    /\ buckets' = buckets \cup {[id |-> nextBucketId, name |-> c.name, userId |-> c.userId]}
    /\ nextBucketId' = nextBucketId + 1
    /\ last' = [op |-> "createBucketCall", name |-> c.name, userId |-> c.userId,
                result |-> Ok(nextBucketId)]
    /\ UNCHANGED <<now, secrets, assets, files, nextSecretId, nextAssetId,
                   readTokens, signedUrls>>

\* bucket.service.ts:126-133: await db.bucket.findFirst({ where: { id, userId } });
\* a name that is absent or empty is not put in the update
UpdateBucketFind(id, name, userId) ==
    IF FindBuckets(id, userId) = {}
    THEN /\ last' = [op |-> "updateBucketCall", bucketId |-> id, name |-> name,
                     result |-> Err("NotFoundError", "Bucket not found")]
         /\ UNCHANGED <<now, secrets, buckets, assets, files, nextSecretId,
                        nextBucketId, nextAssetId, readTokens, signedUrls, calls>>
    ELSE /\ FreeTags # {}
         /\ calls' = calls \cup
               {[op |-> "updateBucket", pc |-> "update", bucketId |-> id, name |-> name,
                 userId |-> userId, req |-> CHOOSE n \in FreeTags : TRUE]}
         /\ UNCHANGED <<now, secrets, buckets, assets, files, nextSecretId,
                        nextBucketId, nextAssetId, readTokens, signedUrls, last>>

\* part_003:93-105, the earlier updateBucket: a second findFirst for another
\* bucket of the user with that name
UpdateBucketFindEarlier(id, name, userId) ==
    IF FindBuckets(id, userId) = {}
    THEN /\ last' = [op |-> "updateBucketCall", bucketId |-> id, name |-> name,
                     result |-> Err("NotFoundError", "Bucket not found")]
         /\ UNCHANGED <<now, secrets, buckets, assets, files, nextSecretId,
                        nextBucketId, nextAssetId, readTokens, signedUrls, calls>>
    ELSE IF {b \in FindBucketsByName(name, userId) : b.id # id} # {}
    THEN /\ last' = [op |-> "updateBucketCall", bucketId |-> id, name |-> name,
                     result |-> NameExists]
         /\ UNCHANGED <<now, secrets, buckets, assets, files, nextSecretId,
                        nextBucketId, nextAssetId, readTokens, signedUrls, calls>>
    ELSE /\ FreeTags # {}
         /\ calls' = calls \cup
               {[op |-> "updateBucket", pc |-> "update", bucketId |-> id, name |-> name,
                 userId |-> userId, req |-> CHOOSE n \in FreeTags : TRUE]}
         /\ UNCHANGED <<now, secrets, buckets, assets, files, nextSecretId,
                        nextBucketId, nextAssetId, readTokens, signedUrls, last>>

\* bucket.service.ts:135-140: await db.bucket.update({ where: { id }, data })
UpdateBucketUpdate(c) ==
    /\ c \in calls
    /\ c.op = "updateBucket"
    /\ calls' = calls \ {c}
    /\ buckets' = {IF b.id = c.bucketId /\ c.name # "" THEN [b EXCEPT !.name = c.name] ELSE b :
                     b \in buckets}
    /\ last' = [op |-> "updateBucketCall", bucketId |-> c.bucketId, name |-> c.name,
                result |-> Ok(c.bucketId)]
    /\ UNCHANGED <<now, secrets, assets, files, nextSecretId, nextBucketId, nextAssetId,
                   readTokens, signedUrls>>

CreateBucketFindAny ==
    /\ Idle
    /\ \E n \in NameChoices, u \in Users : CreateBucketFind(n, u)
CreateBucketCreateAny ==
    /\ Idle
    /\ \E c \in calls : CreateBucketCreate(c)
UpdateBucketFindAny ==
    /\ Idle
    /\ \E id \in BucketIds, n \in NameChoices \cup {""}, u \in Users : UpdateBucketFind(id, n, u)
UpdateBucketUpdateAny ==
    /\ Idle
    /\ \E c \in calls : UpdateBucketUpdate(c)

NextName ==
    \/ Respond
    \/ CreateBucketFindAny
    \/ CreateBucketCreateAny
    \/ UpdateBucketFindAny
    \/ UpdateBucketUpdateAny

SpecName == Init /\ [][NextName]_vars

\* one request at a time: a request starts when no other is in flight
NextNameSequential ==
    \/ Respond
    \/ calls = {} /\ CreateBucketFindAny
    \/ CreateBucketCreateAny
    \/ calls = {} /\ UpdateBucketFindAny
    \/ UpdateBucketUpdateAny

SpecNameSequential == Init /\ [][NextNameSequential]_vars

\* one request at a time, with the earlier updateBucket
NextNameEarlier ==
    \/ Respond
    \/ calls = {} /\ CreateBucketFindAny
    \/ CreateBucketCreateAny
    \/ /\ calls = {}
       /\ Idle
       /\ \E id \in BucketIds, n \in NameChoices, u \in Users : UpdateBucketFindEarlier(id, n, u)
    \/ UpdateBucketUpdateAny

SpecNameEarlier == Init /\ [][NextNameEarlier]_vars

\* C28: no two buckets of one owner have the same name.
C28_BucketNamesUnique ==
    \A b1 \in buckets, b2 \in buckets :
        (b1.userId = b2.userId /\ b1.name = b2.name) => b1 = b2

\* two buckets of one owner under one name
SameName == \E b1 \in buckets, b2 \in buckets :
                b1 # b2 /\ b1.userId = b2.userId /\ b1.name = b2.name
\* brought about by an update that succeeded
C28_DuplicateByUpdate ==
    /\ last.op = "updateBucketCall"
    /\ last.result.ok
    /\ calls = {}
    /\ \E b \in buckets : b.id # last.bucketId /\ b.name = last.name
    /\ SameName
\* brought about by two creations in flight together
C28_DuplicateByCreate ==
    /\ last.op = "createBucketCall"
    /\ last.result.ok
    /\ \A b \in buckets : b.name = last.name /\ b.userId = last.userId
    /\ SameName
\* a creation under a name in use is refused
C28_CreateRefused ==
    /\ last.op = "createBucketCall"
    /\ last.result = NameExists
    /\ buckets # {}

----------------------------------------------------------------------------
(* Upload: the bucket's configuration, the file filter and the size limit *)

MiB == 1048576
DefaultMaxFileSize == 10 * MiB
NamedWhenAbsent == 100 * MiB

\* bucket.service.ts:16-25: the object schema with its catch value
BucketConfigCatch == [allowedFileTypes |-> None, maxFileSize |-> Some(DefaultMaxFileSize)]
BucketConfigSchemaParse(value) ==
    IF value.maxFileSize # None /\ Get(value.maxFileSize) <= 0
    THEN BucketConfigCatch
    ELSE value

\* bucket.service.ts:173-174: a bucket without a config gets the parse of {}
getBucketConfig(config) ==
    IF config = None
    THEN BucketConfigSchemaParse([allowedFileTypes |-> None, maxFileSize |-> None])
    ELSE BucketConfigSchemaParse(Get(config))

\* multer.ts:20 limits.fileSize: config.maxFileSize ?? 10 * 1024 * 1024
FileSizeLimit(bucketConfig) ==
    LET config == BucketConfigSchemaParse(bucketConfig)
    IN  IF config.maxFileSize # None THEN Get(config.maxFileSize) ELSE DefaultMaxFileSize

\* Math.round of a quotient of non-negative integers
RoundDiv(n, d) == (2 * n + d) \div (2 * d)
\* upload.middleware.ts:29
maxSizeMB(bucketConfig) ==
    RoundDiv(IF bucketConfig.maxFileSize # None /\ Get(bucketConfig.maxFileSize) # 0
             THEN Get(bucketConfig.maxFileSize) ELSE NamedWhenAbsent,
             MiB)

\* String.prototype.toLowerCase on the pieces used here
LowerPiece(piece) == IF piece = "PNG" THEN "png" ELSE piece
toLowerCase(str) == [i \in 1..Len(str) |-> LowerPiece(str[i])]
\* path.extname: from the last "." on, "" when there is none or it comes first
extname(name) ==
    LET dots == {i \in 2..Len(name) : name[i] = "."}
    IN  IF dots = {} THEN <<>>
        ELSE SubSeq(name, CHOOSE i \in dots : \A j \in dots : j <= i, Len(name))
startsWith(str, prefix) ==
    Len(str) >= Len(prefix) /\ SubSeq(str, 1, Len(prefix)) = prefix
endsWith(str, suffix) ==
    Len(str) >= Len(suffix) /\ SubSeq(str, Len(str) - Len(suffix) + 1, Len(str)) = suffix
\* String.prototype.replace("/*", ""): the first occurrence is removed
RemoveFirstSlashStar(str) ==
    LET at == {i \in 1..(Len(str) - 1) : str[i] = "/" /\ str[i + 1] = "*"}
    IN  IF at = {} THEN str
        ELSE LET i == CHOOSE k \in at : \A j \in at : k <= j
             IN  SubSeq(str, 1, i - 1) \o SubSeq(str, i + 2, Len(str))

\* multer.ts:33-48: one entry of allowedFileTypes against the file
EntryAllows(allowedType, fileExtension, mimeType) ==
    IF startsWith(allowedType, <<".">>)
    THEN fileExtension = toLowerCase(allowedType)
    ELSE IF Includes(allowedType, "/")
    THEN IF endsWith(allowedType, <<"/", "*">>)
         THEN startsWith(mimeType, RemoveFirstSlashStar(allowedType))
         ELSE mimeType = allowedType
    ELSE FALSE

\* multer.ts:24-56: the error the filter hands back, if any
fileFilter(bucketConfig, file) ==
    IF bucketConfig.allowedFileTypes = None THEN Ok(TRUE)
    ELSE LET allowed == Get(bucketConfig.allowedFileTypes)
             fileExtension == toLowerCase(extname(file.originalname))
         IN  IF Len(allowed) = 0
             THEN Err("Error", "No file uploads allowed for this bucket")
             ELSE IF \E i \in 1..Len(allowed) :
                        EntryAllows(allowed[i], fileExtension, file.mimetype)
             THEN Ok(TRUE)
             ELSE Err("Error", "File type not allowed")

\* upload.middleware.ts:19-37: the filter runs when the file part begins, the
\* size limit while its bytes arrive
bucketUploadMiddleware(config, file) ==
    LET bucketConfig == getBucketConfig(config)
        filtered == fileFilter(bucketConfig, file)
    IN  IF ~filtered.ok THEN Err("BadRequestError", [text |-> filtered.message])
        ELSE IF file.size > FileSizeLimit(bucketConfig)
        THEN Err("BadRequestError",
                 [text |-> "File size exceeds maximum allowed size of",
                  mb |-> maxSizeMB(bucketConfig)])
        ELSE Ok(TRUE)

MaxFileSizeChoices ==
    {None, Some(-1), Some(1), Some(MiB \div 2), Some(MiB), Some((3 * MiB) \div 2),
     Some(DefaultMaxFileSize), Some(20 * MiB)}
AllowedTypeChoices ==
    {<<".", "png">>, <<".", "PNG">>, <<"image", "/", "*">>, <<"image", "/", "png">>,
     <<"png">>}
AllowedFileTypesChoices ==
    {None, Some(<<>>)} \cup {Some(<<e>>) : e \in AllowedTypeChoices}
        \cup {Some(<<<<".", "png">>, <<"text", "/", "plain">>>>)}
ConfigChoices ==
    {None} \cup {Some([allowedFileTypes |-> t, maxFileSize |-> m]) :
                    t \in AllowedFileTypesChoices, m \in MaxFileSizeChoices}
OriginalNames == {<<"a", ".", "png">>, <<"a", ".", "PNG">>, <<"a", ".", "txt">>, <<"a">>}
MimeTypes ==
    {<<"image", "/", "png">>, <<"image", "/", "jpeg">>, <<"image", "x", "/", "png">>,
     <<"text", "/", "plain">>}
FileSizes ==
    {1, 2, MiB, MiB + 1, DefaultMaxFileSize, DefaultMaxFileSize + 1, NamedWhenAbsent,
     NamedWhenAbsent + 1}

UploadRequest(config, file) ==
    /\ last' = [op |-> "upload", config |-> config, file |-> file,
                result |-> bucketUploadMiddleware(config, file)]
    /\ UNCHANGED <<now, secrets, buckets, assets, files, nextSecretId, nextBucketId,
                   nextAssetId, readTokens, signedUrls, calls>>

UploadAny ==
    /\ Idle
    /\ \E config \in ConfigChoices, name \in OriginalNames, mime \in MimeTypes,
          size \in FileSizes :
          UploadRequest(config, [originalname |-> name, mimetype |-> mime, size |-> size])

NextUpload ==
    \/ Respond
    \/ UploadAny

SpecUpload == Init /\ [][NextUpload]_vars

IsUpload == last.op = "upload"
\* the configuration of the bucket as the middleware gets it
Config == getBucketConfig(last.config)
\* the limit the claim names: maxFileSize when present, 10 MiB when absent
LimitOf(config) ==
    IF config.maxFileSize # None THEN Get(config.maxFileSize) ELSE DefaultMaxFileSize
SizeRefused == IsUpload /\ ~last.result.ok /\ "mb" \in DOMAIN last.result.message
TypeRefused == IsUpload /\ ~last.result.ok /\ ~("mb" \in DOMAIN last.result.message)

\* C29: an upload that passes the file filter is refused for its size exactly
\* when the file is larger than config.maxFileSize, or than 10 MiB when the
\* configuration has no maxFileSize, and the size the error names is that limit.
C29_NamedSizeIsEnforcedLimit ==
    IsUpload =>
        /\ (~TypeRefused) => (SizeRefused <=> last.file.size > LimitOf(Config))
        /\ SizeRefused => last.result.message.mb * MiB = LimitOf(Config)

\* the limit enforced is the one the claim names
EnforcedLimit ==
    (IsUpload /\ ~TypeRefused) => (SizeRefused <=> last.file.size > LimitOf(Config))

\* no maxFileSize: 10 MiB enforced, 100MB named
C29_NamedHundred ==
    /\ SizeRefused
    /\ Config.maxFileSize = None
    /\ last.file.size = DefaultMaxFileSize + 1
    /\ last.result.message.mb = 100

\* a limit of one byte is named 0MB
C29_NamedZero ==
    /\ SizeRefused
    /\ Config.maxFileSize = Some(1)
    /\ last.result.message.mb = 0

\* a limit of whole MiB is named as it is
C29_NamedExactly ==
    /\ SizeRefused
    /\ Config.maxFileSize = Some(20 * MiB)
    /\ last.result.message.mb = 20

\* the top-level type of a MIME type: what precedes its first "/"
TopLevelType(mimeType) == Split(mimeType, "/")[1]
IsWildcard(entry) == endsWith(entry, <<"/", "*">>)
\* an entry matches a file as the rule is stated
Matches(entry, file) ==
    IF entry[1] = "."
    THEN toLowerCase(extname(file.originalname)) = toLowerCase(entry)
    ELSE IF IsWildcard(entry)
    THEN TopLevelType(file.mimetype) = SubSeq(entry, 1, Len(entry) - 2)
    ELSE Includes(entry, "/") /\ file.mimetype = entry
Accepts(config, file) ==
    \/ config.allowedFileTypes = None
    \/ \E i \in 1..Len(Get(config.allowedFileTypes)) :
          Matches(Get(config.allowedFileTypes)[i], file)

\* C30: the file filter lets an upload through exactly when the bucket has no
\* allowedFileTypes or some entry matches the file: a "." entry its extension
\* without regard to case, a "T/*" entry the MIME types of top-level type T,
\* another entry with "/" that very MIME type; an empty list lets nothing
\* through.
C30_FilterAcceptsIffMatch ==
    IsUpload => (~TypeRefused <=> Accepts(Config, last.file))

\* "image/*" lets through a MIME type that only begins with the letters image
C30_PrefixAccepted ==
    /\ IsUpload
    /\ Config.allowedFileTypes = Some(<<<<"image", "/", "*">>>>)
    /\ last.file.mimetype = <<"image", "x", "/", "png">>
    /\ TopLevelType(last.file.mimetype) # <<"image">>
    /\ ~TypeRefused

\* for MIME types of the top-level types the entries name, the rule holds
FilterAcceptsIffMatchOfNamedTypes ==
    (IsUpload /\ TopLevelType(last.file.mimetype) \in {<<"image">>, <<"text">>})
        => (~TypeRefused <=> Accepts(Config, last.file))

\* an empty list refuses, a "." entry matches without regard to case
C30_EmptyListRefuses ==
    /\ TypeRefused
    /\ Config.allowedFileTypes = Some(<<>>)
    /\ last.result.message.text = "No file uploads allowed for this bucket"
C30_ExtensionAnyCase ==
    /\ IsUpload
    /\ Config.allowedFileTypes = Some(<<<<".", "PNG">>>>)
    /\ last.file.originalname = <<"a", ".", "png">>
    /\ last.file.mimetype = <<"text", "/", "plain">>
    /\ ~TypeRefused

====
